---------------------------- MODULE Spec2Model ----------------------------
(***************************************************************************)
(* A model of pycont: the C3000 syringe pump controller                    *)
(* (src/pycont/controller.py), its protocol vocabulary                     *)
(* (src/pycont/pump_protocol.py) and the multi pump orchestrator.          *)
(*                                                                         *)
(* The controller is sequential Python.  Every controller method is an     *)
(* operator on a machine record m:                                         *)
(*     m.ctl  the controller objects' fields, one record per pump          *)
(*     m.dev  the pumps' hardware, one record per connection               *)
(*     m.log  the events so far: a packet written ("send"), the reply read *)
(*            ("recv", status "" when nothing came back) and, for          *)
(*            transfer, the calls it makes ("call")                        *)
(*     m.exc  the Python exception that is propagating, or "none"          *)
(*     m.ret  the returned value as Python prints it ("True", "False",     *)
(*            "None", a valve letter) and m.val a returned number          *)
(* An action is one call of a public method from outside, run to its end.  *)
(*                                                                         *)
(* Volumes are exact rationals n / VolDen ml, held as the numerator n.     *)
(* The hardware is the environment: it follows the C3000 wire protocol of  *)
(* spec.md, section 6, and takes a bounded number of status polls to end a *)
(* move.                                                                   *)
(***************************************************************************)
EXTENDS Integers, Sequences, FiniteSets, TLC

VARIABLES
    ctl,    \* pump name -> the controller object's fields
    dev,    \* pump name -> the hardware behind that controller's connection
    pre,    \* dev as it was when the last operation was called
    op,     \* the last operation called and its arguments
    log,    \* the events of the last operation
    exc,    \* the exception the last operation ended with, or "none"
    ret,    \* what the last operation returned
    val     \* the number the last operation returned (-1: none)

vars == <<ctl, dev, pre, op, log, exc, ret, val>>

----------------------------------------------------------------------------
(* Bounds of the model *)

\* A move keeps the hardware busy for at most this many status polls.
MaxBusy == 2

\* The largest max_repeat an outside caller passes besides the default.
MaxRepeatArg == 2

\* The depth at which a recursion of transfer is cut with RecursionError
\* (Python cuts it at its recursion limit): above every depth a transfer
\* that ends needs here.
MaxDepth == 7
\* The longest data payload of a reply and the most commands of a packet.
MaxPayload == 2
MaxCommands == 2

----------------------------------------------------------------------------
(* Program constants: controller.py *)

MICRO_STEP_MODE_0 == 0
MICRO_STEP_MODE_2 == 2
N_STEP_MICRO_STEP_MODE_0 == 3000
N_STEP_MICRO_STEP_MODE_2 == 24000
MAX_TOP_VELOCITY_MICRO_STEP_MODE_0 == 6000
MAX_TOP_VELOCITY_MICRO_STEP_MODE_2 == 48000
MAX_REPEAT_OPERATION == 10

VALVE_INPUT == "I"
VALVE_OUTPUT == "O"
VALVE_BYPASS == "B"
VALVE_EXTRA == "E"
VALVE_6WAY_LIST == {"1", "2", "3", "4", "5", "6"}

\* The dial positions in the order of the dict literal, and the dict itself.
SwitchOrder == <<"0", "1", "2", "3", "4", "5", "6", "7", "8", "9",
                 "A", "B", "C", "D", "E">>

C3000SwitchToAddress ==
    [s \in {SwitchOrder[i] : i \in 1..Len(SwitchOrder)} |->
        CASE s = "0" -> "1" [] s = "1" -> "2" [] s = "2" -> "3"
          [] s = "3" -> "4" [] s = "4" -> "5" [] s = "5" -> "6"
          [] s = "6" -> "7" [] s = "7" -> "8" [] s = "8" -> "9"
          [] s = "9" -> ":" [] s = "A" -> ";" [] s = "B" -> "<"
          [] s = "C" -> "=" [] s = "D" -> ">" [] s = "E" -> "?"]

(* Program constants: pump_protocol.py *)

CMD_INITIALIZE_NO_VALVE == "W"
CMD_INITIALIZE_VALVE_ONLY == "w"
CMD_MICROSTEPMODE == "N"
CMD_MOVE_TO == "A"
CMD_PUMP == "P"
CMD_DELIVER == "D"
CMD_TOPVELOCITY == "V"
CMD_VALVE_INPUT == "I"
CMD_VALVE_OUTPUT == "O"
CMD_VALVE_BYPASS == "B"
CMD_VALVE_EXTRA == "E"
CMD_REPORT_STATUS == "Q"
CMD_REPORT_PLUNGER_POSITION == "?"
CMD_REPORT_PEAK_VELOCITY == "?2"
CMD_REPORT_VALVE_POSITION == "?6"
CMD_REPORT_INTIALIZED == "?19"
\* The status character 0x60 (a grave accent, which a TLA+ string cannot
\* hold) is written "~"; no other status is.
STATUS_IDLE_ERROR_FREE == "~"
STATUS_BUSY_ERROR_FREE == "@"

\* The module level names of pump_protocol.py that the controller reads.
\* ERROR_STATUSES_IDLE and ERROR_STATUSES_BUSY are read by the controller
\* (controller.py 224, 327, 329) and defined nowhere: reading one raises
\* AttributeError.
ProtocolModuleAttrs == {"STATUS_IDLE_ERROR_FREE", "STATUS_BUSY_ERROR_FREE"}

\* What the two names would hold: the fault letters of spec.md, section 3,
\* lower case for an idle pump and upper case for a busy one.
ERROR_STATUSES_IDLE == {"a", "b", "c", "f", "g", "i", "j", "k"}
ERROR_STATUSES_BUSY == {"A", "B", "C", "F", "G", "I", "J", "K"}

----------------------------------------------------------------------------
(* Volumes *)

\* Volumes are multiples of 1/VolDen ml: half a step of the finest pump.
VolDen == 2 * 6000

Ml(n) == n * VolDen

\* None where Python passes a number (a speed that is not given).
NoneN == 0 - 1

\* A faulty variant: the quotient of positive numbers is rounded up.
MutPyIntOfQuotientCeil(a, b) == (a + b - 1) \div b

\* int(a / b) for b # 0: the quotient, truncated towards zero.
PyIntOfQuotient(a, b) ==
    IF (a >= 0) = (b > 0)
    THEN (IF a >= 0 THEN a ELSE 0 - a) \div (IF b > 0 THEN b ELSE 0 - b)
    ELSE 0 - ((IF a >= 0 THEN a ELSE 0 - a) \div (IF b > 0 THEN b ELSE 0 - b))

\* round() of Python 3: to the nearest integer, a tie to the even one.
PyRound(num, den) ==
    LET q == num \div den
        r == num % den
    IN  IF 2 * r < den THEN q
        ELSE IF 2 * r > den THEN q + 1
        ELSE IF q % 2 = 0 THEN q ELSE q + 1

----------------------------------------------------------------------------
(* Events and the machine record *)

Ev(k, p, c, n, t, s) == [k |-> k, p |-> p, c |-> c, n |-> n, t |-> t, s |-> s]

Machine(c, d) ==
    [ctl |-> c, dev |-> d, log |-> <<>>, exc |-> "none", ret |-> "None", val |-> -1]

Raise(m, e) == [m EXCEPT !.exc = e, !.ret = "None", !.val = -1]
Return(m, r) == [m EXCEPT !.ret = r, !.val = -1]
ReturnVal(m, v) == [m EXCEPT !.ret = "None", !.val = v]
ReturnBool(m, b) == Return(m, IF b THEN "True" ELSE "False")


----------------------------------------------------------------------------
(* The hardware behind one connection (the environment)                    *)

\* The raw character the hardware reports for the valve position a valve
\* command selects: 'I' 'O' 'B' 'E' turn to i o b e, 'I<n>' to the port n.
RawOfValveCmd(c) ==
    CASE c = CMD_VALVE_INPUT -> "i"
      [] c = CMD_VALVE_OUTPUT -> "o"
      [] c = CMD_VALVE_BYPASS -> "b"
      [] c = CMD_VALVE_EXTRA -> "e"
      [] c = "I1" -> "1" [] c = "I2" -> "2" [] c = "I3" -> "3"
      [] c = "I4" -> "4" [] c = "I5" -> "5" [] c = "I6" -> "6"
      [] OTHER -> ""

ValveCmds == {CMD_VALVE_INPUT, CMD_VALVE_OUTPUT, CMD_VALVE_BYPASS, CMD_VALVE_EXTRA,
              "I1", "I2", "I3", "I4", "I5", "I6"}

\* The status character of a reply: a fault letter, busy or idle.
DevStatus(d) ==
    IF d.fault # "" THEN d.fault
    ELSE IF d.busy > 0 THEN STATUS_BUSY_ERROR_FREE
    ELSE STATUS_IDLE_ERROR_FREE

\* A move ends: the valve, the plunger and the initialised flag take the
\* commanded values.
DevComplete(d) ==
    [d EXCEPT !.valve = d.vtarget, !.plunger = d.ptarget, !.init = d.itarget,
              !.busy = 0]

\* Time passes for the hardware by one status poll.
DevTick(d) ==
    IF d.busy = 0 THEN d
    ELSE IF d.busy = 1 THEN DevComplete(d)
    ELSE [d EXCEPT !.busy = d.busy - 1]

\* A move is commanded: it takes d.dur status polls.
DevStart(d) == IF d.dur = 0 THEN DevComplete(d) ELSE [d EXCEPT !.busy = d.dur]

\* A plunger move to position t; the hardware refuses a position outside
\* its stroke.
DevPlungerTo(d, t) ==
    IF t < 0 \/ t > d.stroke THEN d ELSE DevStart([d EXCEPT !.ptarget = t])

\* The hardware's state after the command (c, n) of a packet.
DevExec(d, c, n) ==
    CASE c = CMD_REPORT_STATUS -> DevTick(d)
      [] c \in ValveCmds ->
            IF d.env = "stuck" THEN DevStart(d)
            ELSE DevStart([d EXCEPT !.vtarget = RawOfValveCmd(c)])
      [] c = CMD_TOPVELOCITY -> [d EXCEPT !.topv = n]
      [] c = CMD_PUMP -> DevPlungerTo(d, d.ptarget + n)
      [] c = CMD_DELIVER -> DevPlungerTo(d, d.ptarget - n)
      [] c = CMD_MOVE_TO -> DevPlungerTo(d, n)
      [] c = CMD_INITIALIZE_VALVE_ONLY -> DevStart(d)
      [] c = CMD_INITIALIZE_NO_VALVE ->
            DevStart([d EXCEPT !.ptarget = 0, !.itarget = TRUE])
      [] OTHER -> d

\* A line that is about to die answers one, two or three more packets.
DevFade(d) ==
    CASE d.env = "last3" -> [d EXCEPT !.env = "last2"]
      [] d.env = "last2" -> [d EXCEPT !.env = "last1"]
      [] d.env = "last1" -> [d EXCEPT !.env = "mute"]
      [] OTHER -> d

\* The hardware's state after a packet it has answered.
DevAfter(d, c, n) == DevFade(DevExec(d, c, n))

\* The number and the text of the reply's data field.
DevDataN(d, c) ==
    CASE c = CMD_REPORT_PLUNGER_POSITION -> d.plunger
      [] c = CMD_REPORT_PEAK_VELOCITY -> d.topv
      [] c = CMD_REPORT_INTIALIZED -> IF d.init THEN 1 ELSE 0
      [] OTHER -> -1

DevDataT(d, c) == IF c = CMD_REPORT_VALVE_POSITION THEN d.valve ELSE ""

\* The hardware answers a packet only when it carries its own address and
\* the line is not dead.
DevAnswers(d, addr) == d.addr = addr /\ d.env # "mute"


----------------------------------------------------------------------------
(* C3000Controller: the exchange with the pump                             *)

\* write_and_read_from_pump with a packet forged for the address addr: the
\* packet is written, the reply is read; an empty reply raises
\* PumpCommunicationError, another one is split into status and data.
\* The event of a write carries the address in its s field.
MutWriteNoRead(m, p, addr, c, n, t) ==
    LET d == m.dev[p]
        sent == Append(m.log, Ev("send", p, c, n, t, addr))
    IN  IF DevAnswers(d, addr)
        THEN [m EXCEPT !.dev[p] = DevAfter(d, c, n), !.log = sent,
                       !.ret = DevStatus(d), !.val = DevDataN(d, c)]
        ELSE [m EXCEPT !.log = sent, !.exc = "PumpCommunicationError",
                       !.ret = "None", !.val = -1]

\* A faulty variant: a packet that got no reply is sent a second time.
MutWriteResends(m, p, addr, c, n, t) ==
    LET d == m.dev[p]
        sent == Append(m.log, Ev("send", p, c, n, t, addr))
        none == Ev("recv", p, c, -1, "", "")
    IN  IF DevAnswers(d, addr)
        THEN [m EXCEPT !.dev[p] = DevAfter(d, c, n),
                       !.log = Append(sent, Ev("recv", p, c, DevDataN(d, c),
                                               DevDataT(d, c), DevStatus(d))),
                       !.ret = DevStatus(d),
                       !.val = DevDataN(d, c)]
        ELSE [m EXCEPT !.log = Append(Append(Append(sent, none),
                                             Ev("send", p, c, n, t, addr)), none),
                       !.exc = "PumpCommunicationError",
                       !.ret = "None", !.val = -1]

WriteAndReadAt(m, p, addr, c, n, t) ==
    LET d == m.dev[p]
        sent == Append(m.log, Ev("send", p, c, n, t, addr))
    IN  IF DevAnswers(d, addr)
        THEN [m EXCEPT !.dev[p] = DevAfter(d, c, n),
                       !.log = Append(sent, Ev("recv", p, c, DevDataN(d, c),
                                               DevDataT(d, c), DevStatus(d))),
                       !.ret = DevStatus(d),
                       !.val = DevDataN(d, c)]
        ELSE [m EXCEPT !.log = Append(sent, Ev("recv", p, c, -1, "", "")),
                       !.exc = "PumpCommunicationError",
                       !.ret = "None", !.val = -1]

\* write_and_read_from_pump with a packet of the controller's own protocol
\* object (self._protocol, forged for self.address).
WriteAndRead(m, p, c, n, t) == WriteAndReadAt(m, p, m.ctl[p].address, c, n, t)

\* The data text of the reply just read.
LastDataT(m) == m.log[Len(m.log)].t

----------------------------------------------------------------------------
(* C3000Controller: status and valve                                       *)
(*                                                                         *)
(* A method that goes on after a call is written as the call followed by   *)
(* an operator on the machine the call left: it returns that machine as it *)
(* is when an exception is propagating.                                    *)

\* A faulty variant: a fault letter seen in an earlier reply is remembered.
MutIsIdleDecodeLatches(m1) ==
    IF m1.exc # "none" THEN m1
    ELSE IF \E i \in DOMAIN m1.log :
               /\ m1.log[i].k = "recv"
               /\ m1.log[i].s \notin {STATUS_IDLE_ERROR_FREE, STATUS_BUSY_ERROR_FREE}
         THEN Raise(m1, "AttributeError")
    ELSE ReturnBool(m1, m1.ret = STATUS_IDLE_ERROR_FREE)

\* is_idle after its status query: the decoded status decides.  The two
\* error branches read a name of pump_protocol.
IsIdleDecode(m1) ==
    IF m1.exc # "none" THEN m1
    ELSE IF m1.ret = STATUS_IDLE_ERROR_FREE THEN ReturnBool(m1, TRUE)
    ELSE IF m1.ret = STATUS_BUSY_ERROR_FREE THEN ReturnBool(m1, FALSE)
    ELSE IF "ERROR_STATUSES_BUSY" \notin ProtocolModuleAttrs
         THEN Raise(m1, "AttributeError")
    ELSE IF m1.ret \in ERROR_STATUSES_BUSY THEN Raise(m1, "PumpHWError")
    ELSE IF "ERROR_STATUSES_IDLE" \notin ProtocolModuleAttrs
         THEN Raise(m1, "AttributeError")
    ELSE IF m1.ret \in ERROR_STATUSES_IDLE THEN Raise(m1, "PumpHWError")
    ELSE Raise(m1, "ValueError")

\* is_idle: one status query, decoded.
IsIdle(m, p) == IsIdleDecode(WriteAndRead(m, p, CMD_REPORT_STATUS, -1, ""))

\* is_ready: the hook LabDevice polls.
IsReady(m, p) == IsIdle(m, p)

\* LabDevice.wait_till_ready (SerialLabware): polls is_ready until it
\* answers True.  The hardware ends a move after at most MaxBusy polls, so
\* the loop ends.
RECURSIVE WaitTillReady(_, _)
WaitPolled(m1, p) ==
    IF m1.exc # "none" THEN m1
    ELSE IF m1.ret = "True" THEN Return(m1, "None")
    ELSE WaitTillReady(m1, p)

WaitTillReady(m, p) == WaitPolled(IsReady(m, p), p)

\* get_raw_valve_position: the data of the reply to the valve query.
RawValveRead(m1) == IF m1.exc # "none" THEN m1 ELSE Return(m1, LastDataT(m1))

GetRawValvePosition(m, p) ==
    RawValveRead(WriteAndRead(m, p, CMD_REPORT_VALVE_POSITION, -1, ""))

\* A faulty variant: the digits of the six way valve are not decoded.
MutValveDecodeNoSixWay(m1) ==
    IF m1.exc # "none" THEN m1
    ELSE IF m1.ret = "i" THEN Return(m1, VALVE_INPUT)
    ELSE IF m1.ret = "o" THEN Return(m1, VALVE_OUTPUT)
    ELSE IF m1.ret = "b" THEN Return(m1, VALVE_BYPASS)
    ELSE IF m1.ret = "e" THEN Return(m1, VALVE_EXTRA)
    ELSE Raise(m1, "ValueError")

\* get_valve_position: the raw character decoded.
ValveDecode(m1) ==
    IF m1.exc # "none" THEN m1
    ELSE IF m1.ret = "i" THEN Return(m1, VALVE_INPUT)
    ELSE IF m1.ret = "o" THEN Return(m1, VALVE_OUTPUT)
    ELSE IF m1.ret = "b" THEN Return(m1, VALVE_BYPASS)
    ELSE IF m1.ret = "e" THEN Return(m1, VALVE_EXTRA)
    ELSE IF m1.ret \in VALVE_6WAY_LIST THEN Return(m1, m1.ret)
    ELSE Raise(m1, "ValueError")

GetValvePosition(m, p) == ValveDecode(GetRawValvePosition(m, p))

\* The command of the packet set_valve_position forges for a position, ""
\* for a position it does not know.
ValvePacketCmd(valve_position) ==
    IF valve_position = VALVE_INPUT THEN CMD_VALVE_INPUT
    ELSE IF valve_position = VALVE_OUTPUT THEN CMD_VALVE_OUTPUT
    ELSE IF valve_position = VALVE_BYPASS THEN CMD_VALVE_BYPASS
    ELSE IF valve_position = VALVE_EXTRA THEN CMD_VALVE_EXTRA
    ELSE IF valve_position \in VALVE_6WAY_LIST THEN CMD_VALVE_INPUT \o valve_position
    ELSE ""

\* set_valve_position: attempt i of the loop for i in range(max_repeat).
\* SetValveLoop is the loop head, SetValveQueried the body after the
\* position query, SetValveMoved the body after the move packet,
\* SetValveWaited the end of the body.
RECURSIVE SetValveLoop(_, _, _, _, _, _)
RECURSIVE SetValveQueried(_, _, _, _, _, _)
\* A faulty variant: the loop runs once more than max_repeat.
MutSetValveLoopOffByOne(m, p, valve_position, max_repeat, secure, i) ==
    IF i > max_repeat THEN Raise(m, "ControllerRepeatedError")
    ELSE SetValveQueried(GetValvePosition(m, p), p, valve_position, max_repeat, secure, i)

\* A faulty variant: the next attempt starts without waiting for the pump.
MutSetValveMovedNoWait(m2, p, valve_position, max_repeat, secure, i) ==
    IF m2.exc # "none" THEN m2
    ELSE IF secure = FALSE THEN ReturnBool(m2, TRUE)
    ELSE SetValveLoop(m2, p, valve_position, max_repeat, secure, i + 1)

\* A faulty variant: secure=False is ignored, the move is always verified.
MutSetValveMovedAlwaysSecure(m2, p, valve_position, max_repeat, secure, i) ==
    IF m2.exc # "none" THEN m2
    ELSE SetValveLoop(WaitTillReady(m2, p), p, valve_position, max_repeat, secure, i + 1)

SetValveWaited(m3, p, valve_position, max_repeat, secure, i) ==
    IF m3.exc # "none" THEN m3
    ELSE SetValveLoop(m3, p, valve_position, max_repeat, secure, i + 1)

SetValveMoved(m2, p, valve_position, max_repeat, secure, i) ==
    IF m2.exc # "none" THEN m2
    ELSE IF secure = FALSE THEN ReturnBool(m2, TRUE)
    ELSE SetValveWaited(WaitTillReady(m2, p), p, valve_position, max_repeat, secure, i)

SetValveQueried(m1, p, valve_position, max_repeat, secure, i) ==
    IF m1.exc # "none" THEN m1
    ELSE IF m1.ret = valve_position THEN ReturnBool(m1, TRUE)
    ELSE IF ValvePacketCmd(valve_position) = "" THEN Raise(m1, "ValueError")
    ELSE SetValveMoved(WriteAndRead(m1, p, ValvePacketCmd(valve_position), -1, ""),
                       p, valve_position, max_repeat, secure, i)

SetValveLoop(m, p, valve_position, max_repeat, secure, i) ==
    IF i >= max_repeat THEN Raise(m, "ControllerRepeatedError")
    ELSE SetValveQueried(GetValvePosition(m, p), p, valve_position, max_repeat, secure, i)

SetValvePosition(m, p, valve_position, max_repeat, secure) ==
    SetValveLoop(m, p, valve_position, max_repeat, secure, 0)

----------------------------------------------------------------------------
(* C3000Controller: conversions, velocity and plunger                      *)

\* volume_to_step: int(round(volume_in_ml * self.steps_per_ml)).
VolumeToStep(c, volume) == PyRound(volume * c.steps_per_ml, VolDen)

\* step_to_volume: step / float(self.steps_per_ml), as a volume numerator.
StepToVolume(c, step) == (step * VolDen) \div c.steps_per_ml

\* A faulty variant: the range starts at 0.
MutValidateTopVelocityFromZero(c, velocity) ==
    velocity \in 0..(IF c.micro_step_mode = MICRO_STEP_MODE_0
                     THEN MAX_TOP_VELOCITY_MICRO_STEP_MODE_0
                     ELSE MAX_TOP_VELOCITY_MICRO_STEP_MODE_2)

\* validate_top_velocity: velocity in range(1, max_range + 1).
ValidateTopVelocity(c, velocity) ==
    velocity \in 1..(IF c.micro_step_mode = MICRO_STEP_MODE_0
                     THEN MAX_TOP_VELOCITY_MICRO_STEP_MODE_0
                     ELSE MAX_TOP_VELOCITY_MICRO_STEP_MODE_2)

\* __setattr__ with key "default_top_velocity": a value that does not
\* validate is replaced by 1000, at any time.
SetDefaultTopVelocity(m, p, value) ==
    Return([m EXCEPT !.ctl[p].default_top_velocity =
                        IF ValidateTopVelocity(m.ctl[p], value) THEN value ELSE 1000],
           "None")

\* A property getter that returns the number of the reply: int(data).
NumberRead(m1) == IF m1.exc # "none" THEN m1 ELSE ReturnVal(m1, m1.val)

\* A call whose result the caller drops.
Dropped(m1) == IF m1.exc # "none" THEN m1 ELSE Return(m1, "None")

\* The top_velocity property: the getter asks the pump.
GetTopVelocity(m, p) == NumberRead(WriteAndRead(m, p, CMD_REPORT_PEAK_VELOCITY, -1, ""))

\* The top_velocity setter: a velocity that does not validate is dropped.
SetTopVelocity(m, p, velocity) ==
    IF ValidateTopVelocity(m.ctl[p], velocity)
    THEN Dropped(WriteAndRead(m, p, CMD_TOPVELOCITY, velocity, ""))
    ELSE Return(m, "None")

\* ensure_default_top_velocity: the getter, then the setter when they differ.
DefaultVelocityCompared(m1, p) ==
    IF m1.exc # "none" THEN m1
    ELSE IF m1.val # m1.ctl[p].default_top_velocity
         THEN SetTopVelocity(m1, p, m1.ctl[p].default_top_velocity)
    ELSE Return(m1, "None")

\* A faulty variant: the velocity is left as it is.
MutEnsureDefaultTopVelocitySkips(m, p) == Return(m, "None")

EnsureDefaultTopVelocity(m, p) == DefaultVelocityCompared(GetTopVelocity(m, p), p)

\* The current_steps property: the plunger position the pump reports.
CurrentSteps(m, p) == NumberRead(WriteAndRead(m, p, CMD_REPORT_PLUNGER_POSITION, -1, ""))

\* The remaining_steps property.
StepsRemaining(m1, p) ==
    IF m1.exc # "none" THEN m1
    ELSE ReturnVal(m1, m1.ctl[p].number_of_steps - m1.val)

RemainingSteps(m, p) == StepsRemaining(CurrentSteps(m, p), p)

\* The current_volume and remaining_volume properties.
VolumeOfSteps(m1, p) ==
    IF m1.exc # "none" THEN m1
    ELSE IF m1.ctl[p].steps_per_ml = 0 THEN Raise(m1, "ZeroDivisionError")
    ELSE ReturnVal(m1, StepToVolume(m1.ctl[p], m1.val))

CurrentVolume(m, p) == VolumeOfSteps(CurrentSteps(m, p), p)

VolumeRemaining(m1, p) ==
    IF m1.exc # "none" THEN m1
    ELSE ReturnVal(m1, m1.ctl[p].total_volume - m1.val)

RemainingVolume(m, p) == VolumeRemaining(CurrentVolume(m, p), p)

MutStepsFitStrict(m1, steps) ==
    IF m1.exc # "none" THEN m1 ELSE ReturnBool(m1, steps < m1.val)

\* is_volume_pumpable and is_volume_deliverable: steps <= the number read.
StepsFit(m1, steps) ==
    IF m1.exc # "none" THEN m1 ELSE ReturnBool(m1, steps <= m1.val)

IsVolumePumpable(m, p, volume) ==
    StepsFit(RemainingSteps(m, p), VolumeToStep(m.ctl[p], volume))

IsVolumeDeliverable(m, p, volume) ==
    StepsFit(CurrentSteps(m, p), VolumeToStep(m.ctl[p], volume))

----------------------------------------------------------------------------
(* C3000Controller: pump, deliver, transfer                                *)

\* The end of pump and deliver: the wait, when one is asked for, and True.
MoveWaited(m2) == IF m2.exc # "none" THEN m2 ELSE ReturnBool(m2, TRUE)

MoveSent(m1, p, wait) ==
    IF m1.exc # "none" THEN m1
    ELSE IF wait THEN MoveWaited(WaitTillReady(m1, p))
    ELSE ReturnBool(m1, TRUE)

\* pump and deliver after the valve step: the move packet for the steps.
ValveApplied(m3, p, cmd, volume_in_ml, wait) ==
    IF m3.exc # "none" THEN m3
    ELSE MoveSent(WriteAndRead(m3, p, cmd, VolumeToStep(m3.ctl[p], volume_in_ml), ""),
                  p, wait)

\* pump and deliver after the velocity step: the valve, when one is given.
SpeedApplied(m2, p, cmd, volume_in_ml, valve, wait, secure) ==
    IF m2.exc # "none" THEN m2
    ELSE IF valve # "None"
         THEN ValveApplied(SetValvePosition(m2, p, valve, MAX_REPEAT_OPERATION, secure),
                           p, cmd, volume_in_ml, wait)
    ELSE ValveApplied(m2, p, cmd, volume_in_ml, wait)

\* pump and deliver after the capacity check passed: the speed given, or
\* the default one.
VelocityThenMove(m1, p, cmd, volume_in_ml, valve, speed, wait, secure) ==
    IF speed # NoneN
    THEN SpeedApplied(SetTopVelocity(m1, p, speed), p, cmd, volume_in_ml, valve,
                      wait, secure)
    ELSE SpeedApplied(EnsureDefaultTopVelocity(m1, p), p, cmd, volume_in_ml, valve,
                      wait, secure)

\* pump(volume_in_ml, from_valve, speed_in, wait, secure).
PumpChecked(m1, p, volume_in_ml, from_valve, speed_in, wait, secure) ==
    IF m1.exc # "none" THEN m1
    ELSE IF m1.ret = "False" THEN ReturnBool(m1, FALSE)
    ELSE VelocityThenMove(m1, p, CMD_PUMP, volume_in_ml, from_valve, speed_in,
                          wait, secure)

Pump(m, p, volume_in_ml, from_valve, speed_in, wait, secure) ==
    PumpChecked(IsVolumePumpable(m, p, volume_in_ml),
                p, volume_in_ml, from_valve, speed_in, wait, secure)

MutDeliverCheckedZeroMoves(m1, p, volume_in_ml, to_valve, speed_out, wait, secure) ==
    IF m1.exc # "none" THEN m1
    ELSE IF m1.ret = "False" THEN ReturnBool(m1, FALSE)
    ELSE VelocityThenMove(m1, p, CMD_DELIVER, volume_in_ml, to_valve, speed_out,
                          wait, secure)

\* deliver(volume_in_ml, to_valve, speed_out, wait, secure).
DeliverChecked(m1, p, volume_in_ml, to_valve, speed_out, wait, secure) ==
    IF m1.exc # "none" THEN m1
    ELSE IF m1.ret = "False" THEN ReturnBool(m1, FALSE)
    ELSE IF volume_in_ml = 0 THEN ReturnBool(m1, TRUE)
    ELSE VelocityThenMove(m1, p, CMD_DELIVER, volume_in_ml, to_valve, speed_out,
                          wait, secure)

Deliver(m, p, volume_in_ml, to_valve, speed_out, wait, secure) ==
    DeliverChecked(IsVolumeDeliverable(m, p, volume_in_ml),
                   p, volume_in_ml, to_valve, speed_out, wait, secure)

\* is_volume_valid: 0 <= volume_in_ml <= self.total_volume.
IsVolumeValid(c, volume_in_ml) == 0 <= volume_in_ml /\ volume_in_ml <= c.total_volume

\* go_to_volume(volume_in_ml, speed, wait): the velocity step of pump and
\* deliver, no valve step, and the move-to packet for the steps.
GoToVolume(m, p, volume_in_ml, speed, wait) ==
    IF ~IsVolumeValid(m.ctl[p], volume_in_ml) THEN ReturnBool(m, FALSE)
    ELSE VelocityThenMove(m, p, CMD_MOVE_TO, volume_in_ml, "None", speed, wait, TRUE)

MutMinFirst(a, b) == a

Min(a, b) == IF a <= b THEN a ELSE b

\* A call made by transfer, put in the log before it runs.
Called(m, p, what, volume, valve) ==
    [m EXCEPT !.log = Append(m.log, Ev("call", p, what, volume, valve, ""))]

\* transfer(volume_in_ml, from_valve, to_valve, speed_in, speed_out), at
\* recursion depth depth.  Transfer is the entry, TransferSized the body
\* after remaining_volume was read, TransferPumped after pump returned,
\* TransferDelivered after deliver returned.
RECURSIVE Transfer(_, _, _, _, _, _, _, _)
TransferDelivered(m3, p, volume_in_ml, volume_transferred, from_valve, to_valve, speed_in, speed_out, depth) ==
    IF m3.exc # "none" THEN m3
    ELSE IF volume_in_ml - volume_transferred > 0
         THEN Transfer(m3, p, volume_in_ml - volume_transferred, from_valve, to_valve,
                       speed_in, speed_out, depth + 1)
    ELSE Return(m3, "None")

TransferPumped(m2, p, volume_in_ml, volume_transferred, from_valve, to_valve, speed_in, speed_out, depth) ==
    IF m2.exc # "none" THEN m2
    ELSE TransferDelivered(
            Deliver(Called(m2, p, "deliver", volume_transferred, to_valve),
                    p, volume_transferred, to_valve, speed_out, TRUE, TRUE),
            p, volume_in_ml, volume_transferred, from_valve, to_valve,
            speed_in, speed_out, depth)

TransferSized(m1, p, volume_in_ml, from_valve, to_valve, speed_in, speed_out, depth) ==
    IF m1.exc # "none" THEN m1
    ELSE TransferPumped(
            Pump(Called(m1, p, "pump", Min(volume_in_ml, m1.val), from_valve),
                 p, Min(volume_in_ml, m1.val), from_valve, speed_in, TRUE, TRUE),
            p, volume_in_ml, Min(volume_in_ml, m1.val), from_valve, to_valve,
            speed_in, speed_out, depth)

Transfer(m, p, volume_in_ml, from_valve, to_valve, speed_in, speed_out, depth) ==
    IF depth >= MaxDepth THEN Raise(m, "RecursionError")
    ELSE TransferSized(RemainingVolume(Called(m, p, "transfer", volume_in_ml, ""), p),
                       p, volume_in_ml, from_valve, to_valve, speed_in, speed_out, depth)

----------------------------------------------------------------------------
(* The setup: the pumps and their configurations                           *)

Pumps == {"p1", "p2"}

\* The pump configurations of the setup: total volume (5 ml and 12 ml, in
\* units of 1/VolDen ml), microstep mode.
Config ==
    [p \in Pumps |->
        IF p = "p1"
        THEN [total_volume |-> Ml(5), micro_step_mode |-> MICRO_STEP_MODE_0,
              top_velocity |-> 6000, initialize_valve_position |-> VALVE_INPUT]
        ELSE [total_volume |-> Ml(12), micro_step_mode |-> MICRO_STEP_MODE_2,
              top_velocity |-> 6000, initialize_valve_position |-> VALVE_INPUT]]

\* The wire address of each pump's dial.
DialOf == [p \in Pumps |-> IF p = "p1" THEN "0" ELSE "C"]

----------------------------------------------------------------------------
(* C3000Controller: construction                                           *)

\* The fields __init__ sets after the address is known (controller.py
\* 164 to 181): the step count of the microstep mode, steps_per_ml, and the
\* default top velocity, which __setattr__ replaces by 1000 when it does
\* not validate.
NewController(name, cfg, address) ==
    LET number_of_steps == IF cfg.micro_step_mode = MICRO_STEP_MODE_0
                           THEN N_STEP_MICRO_STEP_MODE_0
                           ELSE N_STEP_MICRO_STEP_MODE_2
        c == [name |-> name,
              built |-> TRUE,
              address |-> address,
              initialize_valve_position |-> cfg.initialize_valve_position,
              micro_step_mode |-> cfg.micro_step_mode,
              number_of_steps |-> number_of_steps,
              total_volume |-> cfg.total_volume,
              steps_per_ml |-> PyIntOfQuotient(number_of_steps * VolDen, cfg.total_volume),
              default_top_velocity |-> cfg.top_velocity]
    IN  IF ValidateTopVelocity(c, cfg.top_velocity) THEN c
        ELSE [c EXCEPT !.default_top_velocity = 1000]

\* A name with no controller object behind it: __init__ has not returned.
NoController(name, cfg) ==
    [NewController(name, cfg, "None") EXCEPT !.built = FALSE]

\* reply == s in autodiscover_address, where reply is the tuple
\* (status, data) that write_and_read_from_pump returns and s is a str:
\* Python compares a tuple unequal to every str.
TupleEqualsStr(status, data, s) == FALSE

\* reply in (s1, s2, ...).
ReplyIn(m1, statuses) == \E s \in statuses : TupleEqualsStr(m1.ret, m1.val, s)

\* autodiscover_address: the loop over C3000SwitchToAddress.items() from
\* the k-th entry on; Discovered is the body after the status query.  The
\* elif reads pump_protocol.ERROR_STATUSES_IDLE first (A or B is A when A is
\* not empty).  A loop that ends returns None.
RECURSIVE Discover(_, _, _)
MutDiscoveredSkipsSilent(m1, p, k) ==
    IF m1.exc # "none" THEN Discover([m1 EXCEPT !.exc = "none"], p, k + 1)
    ELSE IF ReplyIn(m1, {STATUS_IDLE_ERROR_FREE, STATUS_BUSY_ERROR_FREE})
         THEN Return(m1, C3000SwitchToAddress[SwitchOrder[k]])
    ELSE Raise(m1, "AttributeError")

Discovered(m1, p, k) ==
    IF m1.exc # "none" THEN m1
    ELSE IF ReplyIn(m1, {STATUS_IDLE_ERROR_FREE, STATUS_BUSY_ERROR_FREE})
         THEN Return(m1, C3000SwitchToAddress[SwitchOrder[k]])
    ELSE IF "ERROR_STATUSES_IDLE" \notin ProtocolModuleAttrs
         THEN Raise(m1, "AttributeError")
    ELSE IF ReplyIn(m1, ERROR_STATUSES_IDLE)
         THEN Return(m1, C3000SwitchToAddress[SwitchOrder[k]])
    ELSE Discover(m1, p, k + 1)

Discover(m, p, k) ==
    IF k > Len(SwitchOrder) THEN Return(m, "None")
    ELSE Discovered(WriteAndReadAt(m, p, C3000SwitchToAddress[SwitchOrder[k]],
                                   CMD_REPORT_STATUS, -1, ""),
                    p, k)

AutodiscoverAddress(m, p) == Discover(m, p, 1)

\* __init__: the address is discovered, then the fields are set.  An
\* exception leaves no object.
Configured(m1, p, cfg) ==
    IF m1.exc # "none" THEN m1
    ELSE IF cfg.micro_step_mode \notin {MICRO_STEP_MODE_0, MICRO_STEP_MODE_2}
         THEN Raise(m1, "ValueError")
    ELSE IF cfg.total_volume = 0 THEN Raise(m1, "ZeroDivisionError")
    ELSE [m1 EXCEPT !.ctl[p] = NewController(p, cfg, m1.ret), !.ret = "None"]

Addressed(m1, p) == Configured(m1, p, Config[p])

Construct(m, p) == Addressed(AutodiscoverAddress(m, p), p)

----------------------------------------------------------------------------
(* The configurations, the hardware and the arguments explored             *)

----------------------------------------------------------------------------
(* C3000Controller: initialisation                                         *)

\* is_initialized: bool(int(data)) of the reply to the initialised query.
InitializedRead(m1) == IF m1.exc # "none" THEN m1 ELSE ReturnBool(m1, m1.val # 0)

IsInitialized(m, p) == InitializedRead(WriteAndRead(m, p, CMD_REPORT_INTIALIZED, -1, ""))

\* The end of initialize_valve_only and initialize_no_valve: the wait, when
\* one is asked for; nothing is returned.
InitSent(m1, p, wait) ==
    IF m1.exc # "none" THEN m1
    ELSE IF wait THEN Dropped(WaitTillReady(m1, p))
    ELSE Return(m1, "None")

\* initialize_valve_only(operand_string='0,0', wait).
InitializeValveOnly(m, p, wait) ==
    InitSent(WriteAndRead(m, p, CMD_INITIALIZE_VALVE_ONLY, -1, "0,0"), p, wait)

\* A faulty variant: the plunger is always homed with full force.
MutInitializeNoValveFullForce(m, p, wait) ==
    InitSent(WriteAndRead(m, p, CMD_INITIALIZE_NO_VALVE, 0, ""), p, wait)

\* initialize_no_valve(operand_value=None, wait): operand 1 for a syringe
\* below 1 ml, else 0.
InitializeNoValve(m, p, wait) ==
    InitSent(WriteAndRead(m, p, CMD_INITIALIZE_NO_VALVE,
                          IF m.ctl[p].total_volume < Ml(1) THEN 1 ELSE 0, ""),
             p, wait)

\* initialize(valve_position, secure): the valve homed, the valve moved to
\* valve_position (initialize_valve_position when None is given), the
\* plunger homed, each waited for.
InitializeValved(m2, p) ==
    IF m2.exc # "none" THEN m2 ELSE InitializeNoValve(m2, p, TRUE)

InitializeHomed(m1, p, valve_position, secure) ==
    IF m1.exc # "none" THEN m1
    ELSE InitializeValved(
            SetValvePosition(m1, p,
                IF valve_position = "None" THEN m1.ctl[p].initialize_valve_position
                ELSE valve_position,
                MAX_REPEAT_OPERATION, secure),
            p)

Initialize(m, p, valve_position, secure) ==
    InitializeHomed(InitializeValveOnly(m, p, TRUE), p, valve_position, secure)

\* init_all_pump_parameters: the microstep_mode setter with
\* self._microstep_mode, which __init__ left at None and the setter stores
\* back, then the top_velocity setter with the default.
MicrostepSet(m1, p) ==
    IF m1.exc # "none" THEN m1
    ELSE SetTopVelocity(m1, p, m1.ctl[p].default_top_velocity)

InitAllPumpParameters(m, p) ==
    MicrostepSet(WriteAndRead(m, p, CMD_MICROSTEPMODE, NoneN, "None"), p)

\* smart_initialize(valve_position, secure): initialize unless the pump
\* reports initialised, then init_all_pump_parameters(secure=secure), a
\* keyword that method does not take.
SmartInitialized(m2) ==
    IF m2.exc # "none" THEN m2 ELSE Raise(m2, "TypeError")

SmartAsked(m1, p, valve_position, secure) ==
    IF m1.exc # "none" THEN m1
    ELSE IF m1.ret = "False"
         THEN SmartInitialized(Initialize(m1, p, valve_position, secure))
    ELSE Raise(m1, "TypeError")

SmartInitialize(m, p, valve_position, secure) ==
    SmartAsked(IsInitialized(m, p), p, valve_position, secure)

----------------------------------------------------------------------------
(* MultiPumpController                                                     *)

\* The methods getattr finds on a C3000Controller that the orchestrator
\* names, with the keywords each accepts.  set_top_velocity is not one of
\* them; wait_till_ready is the one of LabDevice.
MethodKeywords ==
    [pump |-> {"volume_in_ml", "from_valve", "speed_in", "wait", "secure"},
     deliver |-> {"volume_in_ml", "to_valve", "speed_out", "wait", "secure"},
     set_valve_position |-> {"valve_position", "max_repeat", "secure"},
     ensure_default_top_velocity |-> {},
     init_all_pump_parameters |-> {},
     is_idle |-> {},
     wait_till_ready |-> {}]

\* The arguments of a call through apply_command_to_pumps: the values, and
\* the keywords they are passed by.
Args(volume, valve, speed, wait, secure, kw) ==
    [volume |-> volume, valve |-> valve, speed |-> speed, wait |-> wait,
     secure |-> secure, kw |-> kw]

NoArgs == Args(0, "None", NoneN, FALSE, TRUE, {})

\* func = getattr(self.pumps[pump_name], command); func(*args, **kwargs).
Invoke(m, p, command, a) ==
    IF command \notin DOMAIN MethodKeywords THEN Raise(m, "AttributeError")
    ELSE IF ~(a.kw \subseteq MethodKeywords[command]) THEN Raise(m, "TypeError")
    ELSE CASE command = "pump" ->
                 Pump(m, p, a.volume, a.valve, a.speed, a.wait, a.secure)
           [] command = "deliver" ->
                 Deliver(m, p, a.volume, a.valve, a.speed, a.wait, a.secure)
           [] command = "set_valve_position" ->
                 SetValvePosition(m, p, a.valve, MAX_REPEAT_OPERATION, a.secure)
           [] command = "ensure_default_top_velocity" -> EnsureDefaultTopVelocity(m, p)
           [] command = "init_all_pump_parameters" -> InitAllPumpParameters(m, p)
           [] command = "is_idle" -> IsIdle(m, p)
           [] OTHER -> WaitTillReady(m, p)

\* apply_command_to_pumps: the command on each pump of pump_names in turn,
\* each call put in the log before it runs; self.pumps[pump_name] raises
\* KeyError for a name that is no pump, and an exception ends the loop.
RECURSIVE ApplyCommandToPumps(_, _, _, _)
\* A faulty variant: the loop goes on after a failure.
MutAppliedContinues(m1, rest, command, a) ==
    ApplyCommandToPumps([m1 EXCEPT !.exc = "none"], rest, command, a)

Applied(m1, rest, command, a) ==
    IF m1.exc # "none" THEN m1 ELSE ApplyCommandToPumps(m1, rest, command, a)

ApplyCommandToPumps(m, pump_names, command, a) ==
    IF pump_names = <<>> THEN Return(m, "None")
    ELSE IF Head(pump_names) \notin DOMAIN m.ctl THEN Raise(m, "KeyError")
    ELSE Applied(Invoke(Called(m, Head(pump_names), command, a.volume, a.valve),
                        Head(pump_names), command, a),
                 Tail(pump_names), command, a)

\* wait_until_all_pumps_idle: wait_till_ready on every pump, in the order
\* of self.pumps.
AllPumps == <<"p1", "p2">>

WaitUntilAllPumpsIdle(m) == ApplyCommandToPumps(m, AllPumps, "wait_till_ready", NoArgs)

\* MultiPumpController.pump and deliver (what is "pump" or "deliver"): the
\* velocity step on every pump, the valve step on every pump, the move on
\* every pump without waiting, then the wait on every pump.
MultiMoved(m3, pump_names, wait) ==
    IF m3.exc # "none" THEN m3
    ELSE IF wait THEN ApplyCommandToPumps(m3, pump_names, "wait_till_ready", NoArgs)
    ELSE Return(m3, "None")

MultiValved(m2, pump_names, what, volume_in_ml, speed, wait) ==
    IF m2.exc # "none" THEN m2
    ELSE MultiMoved(
            ApplyCommandToPumps(m2, pump_names, what,
                Args(volume_in_ml, "None", speed, FALSE, TRUE,
                     {IF what = "pump" THEN "speed_in" ELSE "speed_out", "wait"})),
            pump_names, wait)

MultiSped(m1, pump_names, what, volume_in_ml, valve, speed, wait, secure) ==
    IF m1.exc # "none" THEN m1
    ELSE IF valve # "None"
         THEN MultiValved(
                 ApplyCommandToPumps(m1, pump_names, "set_valve_position",
                     Args(0, valve, NoneN, FALSE, secure, {"secure"})),
                 pump_names, what, volume_in_ml, speed, wait)
    ELSE MultiValved(m1, pump_names, what, volume_in_ml, speed, wait)

MultiMove(m, pump_names, what, volume_in_ml, valve, speed, wait, secure) ==
    MultiSped(
        ApplyCommandToPumps(m, pump_names,
            IF speed # NoneN THEN "set_top_velocity" ELSE "ensure_default_top_velocity",
            Args(0, "None", speed, FALSE, secure, {"secure"})),
        pump_names, what, volume_in_ml, valve, speed, wait, secure)

MultiPump(m, pump_names, volume_in_ml, from_valve, speed_in, wait, secure) ==
    MultiMove(m, pump_names, "pump", volume_in_ml, from_valve, speed_in, wait, secure)

MultiDeliver(m, pump_names, volume_in_ml, to_valve, speed_out, wait, secure) ==
    MultiMove(m, pump_names, "deliver", volume_in_ml, to_valve, speed_out, wait, secure)

\* get_pumps: the pumps of the names that are pumps, in the order given.
GetPumps(m, pump_names) == SelectSeq(pump_names, LAMBDA n : n \in DOMAIN m.ctl)

\* float('inf'), the first value of volume_transferred: a volume above
\* every volume of the setup.
InfVolume == 1000 * VolDen

\* The loop of MultiPumpController.transfer over get_pumps(pump_names):
\* the smallest of the volume and every pump's remaining volume.
RECURSIVE MultiSmallest(_, _, _, _)
MultiSmallestRead(m1, rest, volume_in_ml, volume_transferred) ==
    IF m1.exc # "none" THEN m1
    ELSE MultiSmallest(m1, rest, volume_in_ml,
                       Min(Min(volume_in_ml, m1.val), volume_transferred))

MultiSmallest(m, pumps, volume_in_ml, volume_transferred) ==
    IF pumps = <<>> THEN ReturnVal(m, volume_transferred)
    ELSE MultiSmallestRead(RemainingVolume(m, Head(pumps)), Tail(pumps),
                           volume_in_ml, volume_transferred)

\* MultiPumpController.transfer at recursion depth depth: the chunk, the
\* pump and the deliver of it on every pump, each waited for, then the
\* remainder (with secure left at its default).
RECURSIVE MultiTransfer(_, _, _, _, _, _, _, _, _)
MultiTransferDelivered(m3, pump_names, volume_in_ml, volume_transferred, from_valve, to_valve, speed_in, speed_out, depth) ==
    IF m3.exc # "none" THEN m3
    ELSE IF volume_in_ml - volume_transferred > 0
         THEN MultiTransfer(m3, pump_names, volume_in_ml - volume_transferred,
                            from_valve, to_valve, speed_in, speed_out, TRUE, depth + 1)
    ELSE Return(m3, "None")

MultiTransferPumped(m2, pump_names, volume_in_ml, volume_transferred, from_valve, to_valve, speed_in, speed_out, secure, depth) ==
    IF m2.exc # "none" THEN m2
    ELSE MultiTransferDelivered(
            MultiDeliver(m2, pump_names, volume_transferred, to_valve, speed_out,
                         TRUE, secure),
            pump_names, volume_in_ml, volume_transferred, from_valve, to_valve,
            speed_in, speed_out, depth)

MultiTransferSized(m1, pump_names, volume_in_ml, from_valve, to_valve, speed_in, speed_out, secure, depth) ==
    IF m1.exc # "none" THEN m1
    ELSE MultiTransferPumped(
            MultiPump(m1, pump_names, m1.val, from_valve, speed_in, TRUE, secure),
            pump_names, volume_in_ml, m1.val, from_valve, to_valve,
            speed_in, speed_out, secure, depth)

MultiTransfer(m, pump_names, volume_in_ml, from_valve, to_valve, speed_in, speed_out, secure, depth) ==
    IF depth >= MaxDepth THEN Raise(m, "RecursionError")
    ELSE MultiTransferSized(MultiSmallest(m, GetPumps(m, pump_names), volume_in_ml, InfVolume),
                            pump_names, volume_in_ml, from_valve, to_valve,
                            speed_in, speed_out, secure, depth)

\* MultiPumpController.smart_initialize.  A stage is one loop over the
\* pumps: the method named is called, without waiting, on every pump that
\* does not report initialised (check_jumper_position is no method of
\* C3000Controller); each stage is followed by wait_until_all_pumps_idle.
BringUpStages ==
    <<"initialize_valve_only", "set_valve_position", "initialize_no_valve",
      "check_jumper_position">>

\* A faulty variant: the stage of the valve position does nothing.
MutStageStepLeavesValve(m, p, stage, secure) ==
    CASE stage = "initialize_valve_only" -> InitializeValveOnly(m, p, FALSE)
      [] stage = "set_valve_position" -> Return(m, "None")
      [] stage = "initialize_no_valve" -> InitializeNoValve(m, p, FALSE)
      [] OTHER -> Raise(m, "AttributeError")

StageStep(m, p, stage, secure) ==
    CASE stage = "initialize_valve_only" -> InitializeValveOnly(m, p, FALSE)
      [] stage = "set_valve_position" ->
            SetValvePosition(m, p, m.ctl[p].initialize_valve_position,
                             MAX_REPEAT_OPERATION, secure)
      [] stage = "initialize_no_valve" -> InitializeNoValve(m, p, FALSE)
      [] OTHER -> Raise(m, "AttributeError")

RECURSIVE StageLoop(_, _, _, _)
StageDone(m2, rest, stage, secure) ==
    IF m2.exc # "none" THEN m2 ELSE StageLoop(m2, rest, stage, secure)

StageAsked(m1, pumps, stage, secure) ==
    IF m1.exc # "none" THEN m1
    ELSE IF m1.ret = "True" THEN StageLoop(m1, Tail(pumps), stage, secure)
    ELSE StageDone(StageStep(Called(m1, Head(pumps), stage, 0, ""),
                             Head(pumps), stage, secure),
                   Tail(pumps), stage, secure)

StageLoop(m, pumps, stage, secure) ==
    IF pumps = <<>> THEN Return(m, "None")
    ELSE StageAsked(IsInitialized(m, Head(pumps)), pumps, stage, secure)

\* The end of smart_initialize: init_all_pump_parameters on every pump,
\* called with secure=secure, and the last wait.
ParametersApplied(m1) ==
    IF m1.exc # "none" THEN m1 ELSE WaitUntilAllPumpsIdle(m1)

RECURSIVE BringUp(_, _, _)
StageWaited(m2, stages, secure) ==
    IF m2.exc # "none" THEN m2 ELSE BringUp(m2, stages, secure)

StageBarrier(m1, stages, secure) ==
    IF m1.exc # "none" THEN m1
    ELSE StageWaited(WaitUntilAllPumpsIdle(m1), stages, secure)

BringUp(m, stages, secure) ==
    IF stages = <<>>
    THEN ParametersApplied(
            ApplyCommandToPumps(m, AllPumps, "init_all_pump_parameters",
                                Args(0, "None", NoneN, FALSE, secure, {"secure"})))
    ELSE StageBarrier(StageLoop(m, AllPumps, Head(stages), secure),
                      Tail(stages), secure)

MultiSmartInitialize(m, secure) == BringUp(m, BringUpStages, secure)

\* Hardware at rest, as an operation may find it.
Hardware(addr, stroke, valve, plunger, topv, dur) ==
    [addr |-> addr, env |-> "ok", fault |-> "", stroke |-> stroke,
     valve |-> valve, vtarget |-> valve,
     plunger |-> plunger, ptarget |-> plunger,
     topv |-> topv, init |-> TRUE, itarget |-> TRUE,
     busy |-> 0, dur |-> dur]

Envs == {"ok", "stuck", "mute"}
Faults == {"", "g", "K"}

\* Arguments of the calls.
Volumes == {Ml(0), Ml(3), Ml(5)}
ValveArgs == {VALVE_INPUT, VALVE_OUTPUT}
Speeds == {NoneN, 1000}

NoOp == [name |-> "none", p |-> "", volume |-> 0, valve |-> "None", to_valve |-> "None",
         speed |-> NoneN, speed_out |-> NoneN, wait |-> FALSE, secure |-> FALSE,
         max_repeat |-> 0, names |-> <<>>, command |-> "", was |-> 0,
         reply |-> <<>>]

\* The state after an operation that ran from machine m0 to machine m.
Ran(o, m) ==
    /\ ctl' = m.ctl
    /\ dev' = m.dev
    /\ pre' = dev
    /\ op' = o
    /\ log' = m.log
    /\ exc' = m.exc
    /\ ret' = m.ret
    /\ val' = m.val

Now == Machine(ctl, dev)

----------------------------------------------------------------------------
(* One pump: the operations of C3000Controller, called from outside        *)

Init ==
    /\ ctl = [p \in Pumps |-> NewController(p, Config[p], C3000SwitchToAddress[DialOf[p]])]
    /\ \E dur \in {0, MaxBusy}, valve \in {"i", "o"} :
          dev = [p \in Pumps |->
                   Hardware(C3000SwitchToAddress[DialOf[p]], ctl[p].number_of_steps,
                            valve, 0, Config[p].top_velocity, dur)]
    /\ pre = dev
    /\ op = NoOp
    /\ log = <<>>
    /\ exc = "none"
    /\ ret = "None"
    /\ val = -1

\* No call is in progress and none has a result waiting.
AtRest == op.name = "none"

\* The caller has taken the result of the last call.
Forget ==
    /\ ~AtRest
    /\ pre' = dev
    /\ op' = NoOp /\ log' = <<>> /\ exc' = "none" /\ ret' = "None" /\ val' = -1
    /\ UNCHANGED <<ctl, dev>>

\* The environment: time passes, the valve jams, the line dies, a fault
\* shows or clears.
HardwareTick(p) ==
    /\ AtRest
    /\ dev[p].busy > 0
    /\ dev' = [dev EXCEPT ![p] = DevTick(dev[p])]
    /\ pre' = dev'
    /\ UNCHANGED <<ctl, op, log, exc, ret, val>>

HardwareEnv(p) ==
    \E e \in Envs, f \in Faults :
        /\ AtRest
        /\ <<e, f>> # <<dev[p].env, dev[p].fault>>
        /\ e = "ok" \/ f = ""
        /\ dev' = [dev EXCEPT ![p].env = e, ![p].fault = f]
        /\ pre' = dev'
        /\ UNCHANGED <<ctl, op, log, exc, ret, val>>

CallIsIdle(p) ==
    /\ AtRest
    /\ Ran([NoOp EXCEPT !.name = "is_idle", !.p = p], IsIdle(Now, p))

CallSetValvePosition(p) ==
    \E valve \in ValveArgs \cup {"X"}, secure \in BOOLEAN,
       max_repeat \in {MAX_REPEAT_OPERATION} \cup 0..MaxRepeatArg :
        /\ AtRest
        /\ Ran([NoOp EXCEPT !.name = "set_valve_position", !.p = p, !.valve = valve,
                            !.secure = secure, !.max_repeat = max_repeat],
               SetValvePosition(Now, p, valve, max_repeat, secure))

CallPump(p) ==
    \E volume \in Volumes, valve \in ValveArgs \cup {"None"}, speed \in Speeds,
       wait \in BOOLEAN, secure \in BOOLEAN :
        /\ AtRest
        /\ valve = "None" => secure
        /\ Ran([NoOp EXCEPT !.name = "pump", !.p = p, !.volume = volume, !.valve = valve,
                            !.speed = speed, !.wait = wait, !.secure = secure],
               Pump(Now, p, volume, valve, speed, wait, secure))

CallDeliver(p) ==
    \E volume \in Volumes, valve \in ValveArgs \cup {"None"}, speed \in Speeds,
       wait \in BOOLEAN, secure \in BOOLEAN :
        /\ AtRest
        /\ valve = "None" => secure
        /\ Ran([NoOp EXCEPT !.name = "deliver", !.p = p, !.volume = volume,
                            !.to_valve = valve, !.speed_out = speed, !.wait = wait,
                            !.secure = secure],
               Deliver(Now, p, volume, valve, speed, wait, secure))

CallTransfer(p) ==
    \E volume \in Volumes \cup {Ml(6)}, from_valve \in ValveArgs, to_valve \in ValveArgs,
       speed_in \in Speeds, speed_out \in Speeds :
        /\ AtRest
        /\ from_valve # to_valve /\ speed_in = speed_out
        /\ Ran([NoOp EXCEPT !.name = "transfer", !.p = p, !.volume = volume,
                            !.valve = from_valve, !.to_valve = to_valve,
                            !.speed = speed_in, !.speed_out = speed_out],
               Transfer(Now, p, volume, from_valve, to_valve, speed_in, speed_out, 0))

Next ==
    \/ Forget
    \/ HardwareTick("p1")
    \/ HardwareEnv("p1")
    \/ CallIsIdle("p1")
    \/ CallSetValvePosition("p1")
    \/ CallPump("p1")
    \/ CallDeliver("p1")
    \/ CallTransfer("p1")

Spec == Init /\ [][Next]_vars

----------------------------------------------------------------------------
(* Reading the log of the last operation                                   *)

IsSend(i, c) == log[i].k = "send" /\ log[i].c = c
IsRecv(i, c) == log[i].k = "recv" /\ log[i].c = c
SendsOf(c) == {i \in DOMAIN log : IsSend(i, c)}
IsMoveSend(i) == log[i].k = "send" /\ log[i].c \in ValveCmds
ValveMoveSends == {i \in DOMAIN log : IsMoveSend(i)}

\* The valve position get_valve_position decodes from a raw character.
DecodedValve(raw) ==
    CASE raw = "i" -> VALVE_INPUT [] raw = "o" -> VALVE_OUTPUT
      [] raw = "b" -> VALVE_BYPASS [] raw = "e" -> VALVE_EXTRA
      [] OTHER -> raw

\* Every packet of the last operation was answered, with an error free
\* status.
AnsweredErrorFree ==
    \A i \in DOMAIN log :
        log[i].k = "recv" => log[i].s \in {STATUS_IDLE_ERROR_FREE, STATUS_BUSY_ERROR_FREE}

SetValveCalled(secure) ==
    /\ op.name = "set_valve_position"
    /\ op.secure = secure
    /\ ValvePacketCmd(op.valve) # ""

----------------------------------------------------------------------------
(* Claims on set_valve_position                                            *)

\* C1: with secure=True and a pump that never reports the target position
\* (and answers every packet error free), set_valve_position raises
\* ControllerRepeatedError after exactly max_repeat position queries and
\* exactly max_repeat move commands, and does not return True.
C1_RetryExhaustion ==
    ( /\ SetValveCalled(TRUE)
      /\ AnsweredErrorFree
      /\ \A i \in DOMAIN log :
            IsRecv(i, CMD_REPORT_VALVE_POSITION) => DecodedValve(log[i].t) # op.valve )
    => ( /\ exc = "ControllerRepeatedError"
         /\ ret # "True"
         /\ Cardinality(SendsOf(CMD_REPORT_VALVE_POSITION)) = op.max_repeat
         /\ Cardinality(ValveMoveSends) = op.max_repeat
         /\ \A i \in ValveMoveSends : log[i].c = ValvePacketCmd(op.valve) )

C1_Witness ==
    /\ SetValveCalled(TRUE)
    /\ op.max_repeat = MAX_REPEAT_OPERATION
    /\ pre[op.p].env = "stuck"
    /\ exc = "ControllerRepeatedError"
    /\ Cardinality(ValveMoveSends) = MAX_REPEAT_OPERATION

\* C2: with secure=True, set_valve_position returns True only right after
\* a position query that decoded to the target; a move command is sent only
\* right after a position query that decoded to another position; and the
\* event before every later position query is a status reply that says
\* idle, the end of the wait that follows each move command.
C2_SecureVerifies ==
    SetValveCalled(TRUE) =>
        /\ ret = "True" =>
              /\ Len(log) >= 2
              /\ IsRecv(Len(log), CMD_REPORT_VALVE_POSITION)
              /\ DecodedValve(log[Len(log)].t) = op.valve
        /\ \A i \in ValveMoveSends :
              /\ i > 1
              /\ IsRecv(i - 1, CMD_REPORT_VALVE_POSITION)
              /\ DecodedValve(log[i - 1].t) # op.valve
        /\ \A j \in SendsOf(CMD_REPORT_VALVE_POSITION) :
              j > 1 =>
                 /\ IsRecv(j - 1, CMD_REPORT_STATUS)
                 /\ log[j - 1].s = STATUS_IDLE_ERROR_FREE
                 /\ \E i \in ValveMoveSends : i < j

C2_Witness ==
    /\ SetValveCalled(TRUE)
    /\ ret = "True"
    /\ ValveMoveSends # {}
    /\ \E i \in DOMAIN log :
          IsRecv(i, CMD_REPORT_STATUS) /\ log[i].s = STATUS_BUSY_ERROR_FREE

\* C3 as stated: with secure=False the move command is issued exactly once
\* and True is returned with no query after the move.
C3_Original ==
    ( /\ SetValveCalled(FALSE)
      /\ op.max_repeat >= 1
      /\ AnsweredErrorFree )
    => ( /\ ret = "True"
         /\ Cardinality(ValveMoveSends) = 1
         /\ IsRecv(Len(log), ValvePacketCmd(op.valve)) )

\* C3 as amended: with secure=False (and max_repeat at least 1) the position
\* is queried once; when it is the target already, True is returned and no
\* move command is sent; otherwise the move command for the target is sent
\* exactly once and True is returned with no position or status query
\* after it.
C3_InsecureMovesAtMostOnce ==
    ( /\ SetValveCalled(FALSE)
      /\ op.max_repeat >= 1
      /\ AnsweredErrorFree )
    => ( /\ ret = "True"
         /\ exc = "none"
         /\ Len(log) >= 2
         /\ IsSend(1, CMD_REPORT_VALVE_POSITION)
         /\ IsRecv(2, CMD_REPORT_VALVE_POSITION)
         /\ IF DecodedValve(log[2].t) = op.valve
            THEN Len(log) = 2
            ELSE /\ Len(log) = 4
                 /\ IsSend(3, ValvePacketCmd(op.valve))
                 /\ IsRecv(4, ValvePacketCmd(op.valve)) )

C3_Witness ==
    /\ SetValveCalled(FALSE)
    /\ ret = "True"
    /\ Cardinality(ValveMoveSends) = 1
    /\ dev[op.p].busy > 0

----------------------------------------------------------------------------
(* Construction: address discovery against a pump on any dial position     *)

Dials == {SwitchOrder[i] : i \in 1..Len(SwitchOrder)}

InitDiscover ==
    /\ ctl = [p \in Pumps |-> NoController(p, Config[p])]
    /\ \E addr \in {C3000SwitchToAddress[s] : s \in Dials} \cup {""},
          f \in Faults, busy \in {0, MaxBusy} :
          dev = [p \in Pumps |->
                   [Hardware(addr, N_STEP_MICRO_STEP_MODE_0, "i", 0, 1400, MaxBusy)
                      EXCEPT !.fault = f, !.busy = busy]]
    /\ pre = dev
    /\ op = NoOp
    /\ log = <<>>
    /\ exc = "none"
    /\ ret = "None"
    /\ val = -1

CallConstruct(p) ==
    /\ AtRest
    /\ ~ctl[p].built
    /\ Ran([NoOp EXCEPT !.name = "construct", !.p = p], Construct(Now, p))

NextDiscover ==
    \/ Forget
    \/ HardwareTick("p1")
    \/ HardwareEnv("p1")
    \/ CallConstruct("p1")

SpecDiscover == InitDiscover /\ [][NextDiscover]_vars

\* The pump answers error free on dial position s and on no other.
AnswersOnlyAt(s) ==
    /\ pre[op.p].addr = C3000SwitchToAddress[s]
    /\ pre[op.p].env # "mute"
    /\ pre[op.p].fault = ""

\* C4: discovery queries the candidates in table order and binds the first
\* that answers validly: against a pump that answers only on dial position
\* C it binds address '=' after the queries to the 12 earlier candidates
\* and its own, and sends none to D or E.
C4_DiscoveryBindsFirstAnswer ==
    (op.name = "construct" /\ AnswersOnlyAt("C")) =>
        /\ exc = "none"
        /\ ctl[op.p].built
        /\ ctl[op.p].address = "="
        /\ Len(log) = 2 * 13
        /\ \A k \in 1..13 :
              /\ log[2 * k - 1].k = "send"
              /\ log[2 * k - 1].c = CMD_REPORT_STATUS
              /\ log[2 * k - 1].s = C3000SwitchToAddress[SwitchOrder[k]]

----------------------------------------------------------------------------
(* Claims on is_idle                                                       *)

\* C6: is_idle maps the error free idle status to True and the error free
\* busy status to False, and raises PumpHWError on every status that
\* carries an error code.
C6_IsIdleMapping ==
    (op.name = "is_idle" /\ Len(log) = 2 /\ log[2].k = "recv") =>
        /\ log[2].s = STATUS_IDLE_ERROR_FREE => (exc = "none" /\ ret = "True")
        /\ log[2].s = STATUS_BUSY_ERROR_FREE => (exc = "none" /\ ret = "False")
        /\ log[2].s \in ERROR_STATUSES_IDLE \cup ERROR_STATUSES_BUSY
              => exc = "PumpHWError"

----------------------------------------------------------------------------
(* Claims on pump and deliver                                              *)

\* The plunger query that opens pump and deliver was answered.
PlungerAnswered ==
    /\ Len(log) >= 2
    /\ IsSend(1, CMD_REPORT_PLUNGER_POSITION)
    /\ IsRecv(2, CMD_REPORT_PLUNGER_POSITION)
    /\ log[2].s # ""

\* The steps of the volume asked for, and the plunger position reported.
StepsAsked == VolumeToStep(ctl[op.p], op.volume)
PlungerReported == log[2].n

\* The velocity, the valve and the plunger of the hardware, moving or not,
\* are as they were before the call.
HardwareUntouched ==
    /\ dev[op.p].topv = pre[op.p].topv
    /\ dev[op.p].valve = pre[op.p].valve
    /\ dev[op.p].vtarget = pre[op.p].vtarget
    /\ dev[op.p].plunger = pre[op.p].plunger
    /\ dev[op.p].ptarget = pre[op.p].ptarget
    /\ dev[op.p].busy = pre[op.p].busy

\* The velocity handling of pump and deliver is in the log before index i:
\* the speed given is set when it is a valid one; with no speed the
\* velocity is read, and the default is set exactly when it differs.
VelocityHandledBefore(i, speed) ==
    IF speed # NoneN
    THEN /\ ValidateTopVelocity(ctl[op.p], speed) =>
               (IsSend(3, CMD_TOPVELOCITY) /\ log[3].n = speed /\ 3 < i)
         /\ SendsOf(CMD_REPORT_PEAK_VELOCITY) = {}
    ELSE /\ IsSend(3, CMD_REPORT_PEAK_VELOCITY) /\ 3 < i
         /\ (log[4].n # ctl[op.p].default_top_velocity) <=>
               (IsSend(5, CMD_TOPVELOCITY) /\ log[5].n = ctl[op.p].default_top_velocity)

\* The valve step is in the log before index i when a valve was given, and
\* no valve packet is in the log when none was.
ValveHandledBefore(i, valve) ==
    IF valve = "None"
    THEN SendsOf(CMD_REPORT_VALVE_POSITION) = {} /\ ValveMoveSends = {}
    ELSE \E j \in SendsOf(CMD_REPORT_VALVE_POSITION) : j < i

\* C8: pump fails closed.  When the steps of the volume exceed
\* number_of_steps minus the plunger position the pump reports, pump
\* returns False having sent the plunger query only, and the velocity, valve
\* and plunger of the hardware are unchanged; otherwise, unless an exception
\* ends it, it handles the velocity, positions the valve when one is given,
\* sends exactly one pump command for volume_to_step(volume) steps and
\* returns True.
C8_PumpFailsClosed ==
    (op.name = "pump" /\ PlungerAnswered) =>
        IF StepsAsked > ctl[op.p].number_of_steps - PlungerReported
        THEN /\ exc = "none" /\ ret = "False"
             /\ Len(log) = 2
             /\ HardwareUntouched
        ELSE /\ ret # "False"
             /\ exc = "none" =>
                   /\ ret = "True"
                   /\ Cardinality(SendsOf(CMD_PUMP)) = 1
                   /\ \A i \in SendsOf(CMD_PUMP) :
                         /\ log[i].n = StepsAsked
                         /\ VelocityHandledBefore(i, op.speed)
                         /\ ValveHandledBefore(i, op.valve)

C8_Witness ==
    /\ op.name = "pump" /\ PlungerAnswered
    /\ PlungerReported > 0
    /\ StepsAsked > ctl[op.p].number_of_steps - PlungerReported
    /\ op.valve # "None" /\ op.speed # NoneN
    /\ ret = "False"

\* C9: deliver returns False, having sent the plunger query only, when the
\* steps of the volume exceed the plunger position the pump reports; and
\* deliver(0) returns True, having sent the plunger query only, whatever the
\* plunger position, the valve and the speed given.
C9_DeliverFailsClosed ==
    (op.name = "deliver" /\ PlungerAnswered) =>
        /\ StepsAsked > PlungerReported =>
              /\ exc = "none" /\ ret = "False"
              /\ Len(log) = 2
              /\ HardwareUntouched
        /\ op.volume = 0 =>
              /\ exc = "none" /\ ret = "True"
              /\ Len(log) = 2
              /\ HardwareUntouched

C9_Witness ==
    /\ op.name = "deliver" /\ PlungerAnswered
    /\ op.volume = 0
    /\ PlungerReported > 0
    /\ op.to_valve # "None" /\ op.speed_out # NoneN
    /\ ret = "True"

----------------------------------------------------------------------------
(* Claims on transfer                                                      *)

IsCall(i, what) == log[i].k = "call" /\ log[i].c = what
Cycles == {i \in DOMAIN log : IsCall(i, "transfer")}
CallsAt == {i \in DOMAIN log : log[i].k = "call"}

\* The next call in the log after index i, and 0 when there is none.
NextCall(i) ==
    IF \E j \in CallsAt : j > i
    THEN CHOOSE j \in CallsAt : j > i /\ \A h \in CallsAt : h > i => j <= h
    ELSE 0

\* The remaining volume at the start of the cycle that opens at index i:
\* total_volume less the volume of the plunger position the pump reports.
RemainingAt(i) == ctl[op.p].total_volume - StepToVolume(ctl[op.p], log[i + 2].n)

\* The chunk of the cycle that opens at index i: the volume of its pump.
ChunkAt(i) == log[NextCall(i)].n

RECURSIVE SumOfChunks(_)
SumOfChunks(cs) ==
    IF cs = {} THEN 0
    ELSE LET i == CHOOSE i \in cs : TRUE IN ChunkAt(i) + SumOfChunks(cs \ {i})

\* The pump is idle when the call at index i returns: the last packet
\* before the next call, or before the end of the log, is a status query
\* answered idle and error free.
BlockedUntilIdle(i) ==
    LET j == IF NextCall(i) = 0 THEN Len(log) ELSE NextCall(i) - 1
    IN  IsRecv(j, CMD_REPORT_STATUS) /\ log[j].s = STATUS_IDLE_ERROR_FREE

\* The packets with command c between the call at index i and the next
\* call.
SendsWithin(i, c) ==
    {h \in SendsOf(c) : i < h /\ (NextCall(i) = 0 \/ h < NextCall(i))}

\* The cycle that opens at index i: the chunk is the smaller of the volume
\* still to transfer and the remaining volume, it is pumped from
\* from_valve and then delivered to to_valve, each call blocking, and the
\* next cycle, if any, is for the volume less the chunk.  deliver sends its
\* packet when the plunger holds the chunk, which it does when no earlier
\* move was still running as transfer began.
CycleAt(i) ==
    LET pu == NextCall(i)
        de == NextCall(pu)
        nx == NextCall(de)
        volume == log[i].n
        chunk == IF volume <= RemainingAt(i) THEN volume ELSE RemainingAt(i)
    IN  /\ pu # 0 /\ IsCall(pu, "pump")
        /\ log[pu].n = chunk /\ log[pu].t = op.valve
        /\ Cardinality(SendsWithin(pu, CMD_PUMP)) = 1
        /\ \A h \in SendsWithin(pu, CMD_PUMP) : log[h].n = VolumeToStep(ctl[op.p], chunk)
        /\ BlockedUntilIdle(pu)
        /\ de # 0 /\ IsCall(de, "deliver")
        /\ log[de].n = chunk /\ log[de].t = op.to_valve
        /\ Cardinality(SendsWithin(de, CMD_DELIVER)) <= 1
        /\ \A h \in SendsWithin(de, CMD_DELIVER) :
              /\ log[h].n = VolumeToStep(ctl[op.p], chunk)
              /\ BlockedUntilIdle(de)
        /\ (chunk > 0 /\ pre[op.p].busy = 0) => SendsWithin(de, CMD_DELIVER) # {}
        /\ IF volume - chunk > 0
           THEN nx # 0 /\ IsCall(nx, "transfer") /\ log[nx].n = volume - chunk
           ELSE nx = 0

\* C10: a transfer that returns has serviced the volume in cycles: the
\* chunk of each cycle is min(volume still to transfer, remaining volume
\* at the start of the cycle), the cycle is a blocking pump of the chunk
\* from from_valve followed by a blocking deliver of the chunk to to_valve,
\* and the chunks sum to the volume asked for.
C10_TransferChunks ==
    (op.name = "transfer" /\ exc = "none") =>
        /\ IsCall(1, "transfer") /\ log[1].n = op.volume
        /\ \A i \in Cycles : CycleAt(i)
        /\ SumOfChunks(Cycles) = op.volume

C10_Witness ==
    /\ op.name = "transfer" /\ exc = "none"
    /\ Cardinality(Cycles) = 2
    /\ \A i \in Cycles : ChunkAt(i) > 0 /\ SendsWithin(NextCall(NextCall(i)), CMD_DELIVER) # {}
    /\ pre[op.p].plunger > 0

----------------------------------------------------------------------------
(* Several pumps: the operations of MultiPumpController                    *)

NameLists == {<<>>, <<"p1">>, <<"p1", "p2">>, <<"p2", "p1">>, <<"p1", "zz">>}
MultiVolumes == {Ml(0), Ml(5)}

\* The plungers as the orchestrator may find them: both empty, or with
\* 2 ml left in the 5 ml syringe and 5 ml left in the 12 ml one.
Starts == {"empty", "part"}
StartPlunger(start, p) ==
    IF start = "empty" THEN 0
    ELSE VolumeToStep(NewController(p, Config[p], ""),
                      Config[p].total_volume - (IF p = "p1" THEN Ml(2) ELSE Ml(5)))
ApplyCommands == {"pump", "deliver", "set_valve_position", "is_idle",
                  "wait_till_ready", "set_top_velocity"}

InitMulti ==
    /\ ctl = [p \in Pumps |-> NewController(p, Config[p], C3000SwitchToAddress[DialOf[p]])]
    /\ \E start \in Starts :
          dev = [p \in Pumps |->
                   Hardware(C3000SwitchToAddress[DialOf[p]], ctl[p].number_of_steps,
                            "i", StartPlunger(start, p), Config[p].top_velocity, MaxBusy)]
    /\ pre = dev
    /\ op = NoOp
    /\ log = <<>>
    /\ exc = "none"
    /\ ret = "None"
    /\ val = -1

\* The line to a pump dies or comes back.
HardwareLine(p) ==
    /\ AtRest
    /\ dev' = [dev EXCEPT ![p].env = IF dev[p].env = "ok" THEN "mute" ELSE "ok"]
    /\ pre' = dev'
    /\ UNCHANGED <<ctl, op, log, exc, ret, val>>

CallApplyCommandToPumps ==
    \E pump_names \in NameLists, command \in ApplyCommands,
       volume \in MultiVolumes, valve \in ValveArgs, wait \in BOOLEAN :
        /\ AtRest
        /\ command \notin {"pump", "deliver"} => (volume = 0 /\ ~wait)
        /\ command # "set_valve_position" => valve = VALVE_INPUT
        /\ Ran([NoOp EXCEPT !.name = "apply_command_to_pumps", !.names = pump_names,
                            !.command = command, !.volume = volume, !.valve = valve,
                            !.wait = wait, !.secure = TRUE],
               ApplyCommandToPumps(Now, pump_names, command,
                   Args(volume, IF command = "set_valve_position" THEN valve ELSE "None",
                        NoneN, wait, TRUE,
                        IF command \in {"pump", "deliver"} THEN {"wait"} ELSE {})))

CallWaitUntilAllPumpsIdle ==
    /\ AtRest
    /\ Ran([NoOp EXCEPT !.name = "wait_until_all_pumps_idle", !.names = AllPumps],
           WaitUntilAllPumpsIdle(Now))

CallMultiPump ==
    \E pump_names \in NameLists, volume \in MultiVolumes, valve \in {"None", VALVE_INPUT},
       speed \in Speeds, wait \in BOOLEAN :
        /\ AtRest
        /\ Ran([NoOp EXCEPT !.name = "multi_pump", !.names = pump_names,
                            !.volume = volume, !.valve = valve, !.speed = speed,
                            !.wait = wait, !.secure = TRUE],
               MultiPump(Now, pump_names, volume, valve, speed, wait, TRUE))

CallMultiDeliver ==
    \E pump_names \in NameLists, volume \in MultiVolumes, valve \in {"None", VALVE_OUTPUT},
       speed \in Speeds, wait \in BOOLEAN :
        /\ AtRest
        /\ Ran([NoOp EXCEPT !.name = "multi_deliver", !.names = pump_names,
                            !.volume = volume, !.to_valve = valve, !.speed_out = speed,
                            !.wait = wait, !.secure = TRUE],
               MultiDeliver(Now, pump_names, volume, valve, speed, wait, TRUE))

CallMultiTransfer ==
    \E pump_names \in NameLists, volume \in MultiVolumes \cup {Ml(6)}, speed \in Speeds :
        /\ AtRest
        /\ Ran([NoOp EXCEPT !.name = "multi_transfer", !.names = pump_names,
                            !.volume = volume, !.valve = VALVE_INPUT,
                            !.to_valve = VALVE_OUTPUT, !.speed = speed,
                            !.speed_out = speed, !.secure = TRUE],
               MultiTransfer(Now, pump_names, volume, VALVE_INPUT, VALVE_OUTPUT,
                             speed, speed, TRUE, 0))

NextMulti ==
    \/ Forget
    \/ \E p \in Pumps : HardwareTick(p)
    \/ HardwareLine("p2")
    \/ CallApplyCommandToPumps
    \/ CallWaitUntilAllPumpsIdle
    \/ CallMultiPump
    \/ CallMultiDeliver
    \/ CallMultiTransfer

SpecMulti == InitMulti /\ [][NextMulti]_vars

----------------------------------------------------------------------------
(* Claims on the exchange                                                  *)

\* The packets written to and the replies read from the connection of
\* pump p during the last operation, in order.
Wire(p) == SelectSeq(log, LAMBDA e : e.p = p /\ e.k \in {"send", "recv"})

\* C7: on the connection of each pump every packet written is followed by
\* the read of its reply before the next packet is written, in every
\* operation of a controller and of the orchestrator over several pumps:
\* the writes and reads of a connection alternate, a read follows the
\* write of the same command, and no write is left without its read.
C7_OneCommandInFlight ==
    \A p \in Pumps :
        /\ Len(Wire(p)) % 2 = 0
        /\ \A i \in DOMAIN Wire(p) :
              IF i % 2 = 1
              THEN Wire(p)[i].k = "send"
              ELSE Wire(p)[i].k = "recv" /\ Wire(p)[i].c = Wire(p)[i - 1].c

C7_Witness ==
    /\ op.name = "apply_command_to_pumps"
    /\ Len(op.names) = 2
    /\ exc = "none"
    /\ \A p \in Pumps : Len(Wire(p)) >= 4

----------------------------------------------------------------------------
(* Claims on the group transfer                                            *)

Named == {op.names[i] : i \in DOMAIN op.names}

\* A group transfer of a volume by pumps that all exist, answer and are at
\* rest as the call starts.
GroupTransferCalled ==
    /\ op.name = "multi_transfer"
    /\ op.names # <<>>
    /\ Named \subseteq Pumps
    /\ op.volume > 0
    /\ \A p \in Named : pre[p].env = "ok" /\ pre[p].fault = "" /\ pre[p].busy = 0

\* The remaining volume of pump p as the call starts.
RemainingBefore(p) ==
    ctl[p].total_volume - StepToVolume(ctl[p], pre[p].plunger)

\* The smallest of the volume v and the remaining volumes of the pumps ps.
RECURSIVE SmallestOver(_, _)
SmallestOver(ps, v) ==
    IF ps = {} THEN v
    ELSE LET q == CHOOSE q \in ps : TRUE
             w == IF RemainingBefore(q) < v THEN RemainingBefore(q) ELSE v
         IN  SmallestOver(ps \ {q}, w)

\* The packets with command c written to pump p, in the order written.
SendsTo(p, c) == SelectSeq(log, LAMBDA e : e.k = "send" /\ e.p = p /\ e.c = c)

\* C11: the chunk of a cycle of a group transfer is the minimum, over the
\* named pumps, of the volume still to transfer and the pump's remaining
\* volume, and every named pump is commanded to pump and then to deliver
\* that chunk; stated for the first cycle.
C11_GroupTransferLockStep ==
    GroupTransferCalled =>
        /\ exc = "none"
        /\ \A p \in Named :
              /\ SendsTo(p, CMD_PUMP) # <<>>
              /\ SendsTo(p, CMD_PUMP)[1].n = VolumeToStep(ctl[p], SmallestOver(Named, op.volume))
              /\ SmallestOver(Named, op.volume) > 0 =>
                    /\ SendsTo(p, CMD_DELIVER) # <<>>
                    /\ SendsTo(p, CMD_DELIVER)[1].n =
                          VolumeToStep(ctl[p], SmallestOver(Named, op.volume))

\* C12: two pumps with 2.0 ml and 5.0 ml remaining, asked to transfer
\* 6.0 ml, pump in exactly two chunks, 2.0 ml then 4.0 ml, each pump the
\* same chunk in each cycle.
C12_TwoChunksExample ==
    ( /\ GroupTransferCalled
      /\ Named = Pumps
      /\ op.volume = Ml(6)
      /\ RemainingBefore("p1") = Ml(2)
      /\ RemainingBefore("p2") = Ml(5) )
    => /\ exc = "none"
       /\ \A p \in Pumps :
             /\ Len(SendsTo(p, CMD_PUMP)) = 2
             /\ SendsTo(p, CMD_PUMP)[1].n = VolumeToStep(ctl[p], Ml(2))
             /\ SendsTo(p, CMD_PUMP)[2].n = VolumeToStep(ctl[p], Ml(4))

\* The index in the log of the first packet with command c written to
\* pump p, and 0 when there is none.
FirstSend(p, c) ==
    IF \E i \in DOMAIN log : IsSend(i, c) /\ log[i].p = p
    THEN CHOOSE i \in DOMAIN log :
            /\ IsSend(i, c) /\ log[i].p = p
            /\ \A j \in DOMAIN log : (IsSend(j, c) /\ log[j].p = p) => i <= j
    ELSE 0

\* C13: in a cycle of a group transfer the pump command goes to every
\* named pump before any of them is waited on, and no named pump gets its
\* deliver command before every named pump was seen idle after the pump
\* phase; stated for the first cycle.
C13_GroupTransferBarriers ==
    GroupTransferCalled =>
        /\ exc = "none"
        /\ \A p \in Named : FirstSend(p, CMD_PUMP) # 0
        /\ \A p, q \in Named :
              /\ \A i \in DOMAIN log :
                    (IsSend(i, CMD_REPORT_STATUS) /\ i > FirstSend(p, CMD_PUMP))
                        => i > FirstSend(q, CMD_PUMP)
              /\ FirstSend(p, CMD_DELIVER) # 0 =>
                    \E h \in DOMAIN log :
                        /\ FirstSend(q, CMD_PUMP) < h /\ h < FirstSend(p, CMD_DELIVER)
                        /\ IsRecv(h, CMD_REPORT_STATUS) /\ log[h].p = q
                        /\ log[h].s = STATUS_IDLE_ERROR_FREE

----------------------------------------------------------------------------
(* Bring-up: initialisation of pumps that may not be initialised           *)

InitBringUp ==
    /\ ctl = [p \in Pumps |-> NewController(p, Config[p], C3000SwitchToAddress[DialOf[p]])]
    /\ \E cold \in SUBSET Pumps :
          dev = [p \in Pumps |->
                   [Hardware(C3000SwitchToAddress[DialOf[p]], ctl[p].number_of_steps,
                             "o", 0, Config[p].top_velocity, MaxBusy)
                      EXCEPT !.init = p \notin cold, !.itarget = p \notin cold]]
    /\ pre = dev
    /\ op = NoOp
    /\ log = <<>>
    /\ exc = "none"
    /\ ret = "None"
    /\ val = -1

\* The pump loses power and comes back not initialised.
HardwarePowerCycle(p) ==
    /\ AtRest
    /\ dev[p].init
    /\ dev' = [dev EXCEPT ![p] = [DevComplete(dev[p]) EXCEPT !.init = FALSE, !.itarget = FALSE]]
    /\ pre' = dev'
    /\ UNCHANGED <<ctl, op, log, exc, ret, val>>

CallIsInitialized(p) ==
    /\ AtRest
    /\ Ran([NoOp EXCEPT !.name = "is_initialized", !.p = p], IsInitialized(Now, p))

CallInitializeValveOnly(p) ==
    \E wait \in BOOLEAN :
        /\ AtRest
        /\ Ran([NoOp EXCEPT !.name = "initialize_valve_only", !.p = p, !.wait = wait],
               InitializeValveOnly(Now, p, wait))

CallInitializeNoValve(p) ==
    \E wait \in BOOLEAN :
        /\ AtRest
        /\ Ran([NoOp EXCEPT !.name = "initialize_no_valve", !.p = p, !.wait = wait],
               InitializeNoValve(Now, p, wait))

CallInitialize(p) ==
    \E valve \in {"None", VALVE_OUTPUT}, secure \in BOOLEAN :
        /\ AtRest
        /\ Ran([NoOp EXCEPT !.name = "initialize", !.p = p, !.valve = valve,
                            !.secure = secure],
               Initialize(Now, p, valve, secure))

CallSmartInitialize(p) ==
    \E valve \in {"None", VALVE_OUTPUT}, secure \in BOOLEAN :
        /\ AtRest
        /\ Ran([NoOp EXCEPT !.name = "smart_initialize", !.p = p, !.valve = valve,
                            !.secure = secure],
               SmartInitialize(Now, p, valve, secure))

CallInitAllPumpParameters(p) ==
    /\ AtRest
    /\ Ran([NoOp EXCEPT !.name = "init_all_pump_parameters", !.p = p],
           InitAllPumpParameters(Now, p))

CallMultiSmartInitialize ==
    \E secure \in BOOLEAN :
        /\ AtRest
        /\ Ran([NoOp EXCEPT !.name = "multi_smart_initialize", !.names = AllPumps,
                            !.secure = secure],
               MultiSmartInitialize(Now, secure))

NextBringUp ==
    \/ Forget
    \/ \E p \in Pumps : HardwareTick(p)
    \/ HardwareLine("p2")
    \/ HardwarePowerCycle("p1")
    \/ CallIsInitialized("p1")
    \/ CallInitializeValveOnly("p1")
    \/ CallInitializeNoValve("p1")
    \/ CallInitialize("p1")
    \/ CallSmartInitialize("p1")
    \/ CallInitAllPumpParameters("p1")
    \/ CallMultiSmartInitialize

SpecBringUp == InitBringUp /\ [][NextBringUp]_vars

\* Every pump answers and is at rest as the call starts.
AllPumpsReady ==
    \A p \in Pumps : pre[p].env = "ok" /\ pre[p].fault = "" /\ pre[p].busy = 0

\* Every pump was seen idle between the indices i and j of the log.
BarrierBetween(i, j) ==
    \A q \in Pumps :
        \E h \in DOMAIN log :
            /\ i < h /\ h < j
            /\ IsRecv(h, CMD_REPORT_STATUS) /\ log[h].p = q
            /\ log[h].s = STATUS_IDLE_ERROR_FREE

\* No call of the stage later is in the log before every pump was seen idle
\* after every call of the stage earlier.
StagedAfter(earlier, later) ==
    \A i, j \in CallsAt :
        (log[i].c = earlier /\ log[j].c = later) => (i < j /\ BarrierBetween(i, j))

\* C14: the bring-up of the orchestrator is staged with barriers: valve
\* only init on every pump not initialised before any wait, the initial
\* valve position only after all pumps were idle, no-valve init only after
\* all pumps were idle again, then the parameter initialisation (microstep
\* mode, default top velocity) on every pump and a last wait on all.
C14_BringUpStaged ==
    (op.name = "multi_smart_initialize" /\ AllPumpsReady) =>
        /\ exc = "none"
        /\ \A i, j \in CallsAt :
              (log[i].c = "initialize_valve_only" /\ log[j].c = "wait_till_ready") => i < j
        /\ StagedAfter("initialize_valve_only", "set_valve_position")
        /\ StagedAfter("set_valve_position", "initialize_no_valve")
        /\ StagedAfter("initialize_no_valve", "init_all_pump_parameters")
        /\ \A p \in Pumps :
              /\ SendsTo(p, CMD_MICROSTEPMODE) # <<>>
              /\ SendsTo(p, CMD_TOPVELOCITY) # <<>>
              /\ SendsTo(p, CMD_TOPVELOCITY)[1].n = ctl[p].default_top_velocity
        /\ log # <<>>
        /\ IsRecv(Len(log), CMD_REPORT_STATUS)
        /\ log[Len(log)].s = STATUS_IDLE_ERROR_FREE

\* The packets that home or move pump p: the two init commands and the
\* valve moves.
HomingSendsTo(p) ==
    {i \in DOMAIN log :
        /\ log[i].k = "send" /\ log[i].p = p
        /\ log[i].c \in {CMD_INITIALIZE_VALVE_ONLY, CMD_INITIALIZE_NO_VALVE} \cup ValveCmds}

\* C15: the bring-up of the orchestrator sends no valve-only init, no valve
\* move and no no-valve init to a pump that reports initialised, so it can
\* be called again: with every pump initialised it completes and homes
\* nothing.
C15_BringUpSkipsInitialized ==
    (op.name = "multi_smart_initialize" /\ AllPumpsReady) =>
        /\ \A p \in Pumps : pre[p].init => HomingSendsTo(p) = {}
        /\ (\A p \in Pumps : pre[p].init) => exc = "none"

----------------------------------------------------------------------------
(* Claims on the fan-out                                                   *)

\* C16: apply_command_to_pumps calls the command on every listed pump that
\* exists and skips a name that is no pump without an error; stated for a
\* command that succeeds on every pump that is listed and exists.
C16_UnknownNamesSkipped ==
    ( /\ op.name = "apply_command_to_pumps"
      /\ ~(Named \subseteq Pumps)
      /\ op.command = "is_idle"
      /\ \A p \in Named \cap Pumps : pre[p].env = "ok" /\ pre[p].fault = "" )
    => /\ exc = "none"
       /\ \A p \in Named \cap Pumps : \E i \in CallsAt : log[i].p = p

\* The command of the fan-out fails on the k-th name: the name is no pump,
\* the command is no method, or the line of the pump is dead.
FailsOn(k) ==
    \/ op.names[k] \notin Pumps
    \/ op.command \notin DOMAIN MethodKeywords
    \/ pre[op.names[k]].env = "mute"

\* C17: when the command of a fan-out over p1..pn fails on pk, the failure
\* reaches the caller and nothing is sent to pk+1..pn, nor is the command
\* called on them.
C17_FanOutAborts ==
    op.name = "apply_command_to_pumps" =>
        \A k \in DOMAIN op.names :
            (FailsOn(k) /\ \A j \in 1..(k - 1) : ~FailsOn(j)) =>
                /\ exc # "none"
                /\ \A i \in DOMAIN log :
                      \A j \in DOMAIN op.names : log[i].p = op.names[j] => j <= k
                /\ Cardinality(CallsAt) <= k

C17_Witness ==
    /\ op.name = "apply_command_to_pumps"
    /\ op.names = <<"p2", "p1">>
    /\ pre["p2"].env = "mute" /\ pre["p1"].env = "ok"
    /\ exc = "PumpCommunicationError"
    /\ \E i \in DOMAIN log : log[i].k = "send" /\ log[i].p = "p2"
    /\ \A i \in DOMAIN log : log[i].p # "p1"

----------------------------------------------------------------------------
(* Velocities: the top velocity of the pump and the default of the         *)
(* controller                                                              *)

\* The largest top velocity of the microstep mode of pump p.
MaxVelocity(p) == IF Config[p].micro_step_mode = MICRO_STEP_MODE_0 THEN 6000 ELSE 48000

\* The velocities written: the ends of the valid range, their neighbours
\* outside it, and one inside.
Velocities(p) == {0, 1, 1000, MaxVelocity(p), MaxVelocity(p) + 1}

\* The default top velocities a configuration gives: 6001 is valid in
\* microstep mode 2 only.
ConfiguredDefaults == {0, 6000, 6001}

InitVelocity ==
    /\ \E tv \in [Pumps -> ConfiguredDefaults] :
          ctl = [p \in Pumps |->
                   NewController(p, [Config[p] EXCEPT !.top_velocity = tv[p]],
                                 C3000SwitchToAddress[DialOf[p]])]
    /\ dev = [p \in Pumps |->
                Hardware(C3000SwitchToAddress[DialOf[p]], ctl[p].number_of_steps,
                         "i", 0, 1400, MaxBusy)]
    /\ pre = dev
    /\ op = NoOp
    /\ log = <<>>
    /\ exc = "none"
    /\ ret = "None"
    /\ val = -1

CallSetTopVelocity ==
    \E p \in Pumps : \E velocity \in Velocities(p) :
        /\ AtRest
        /\ Ran([NoOp EXCEPT !.name = "set_top_velocity", !.p = p, !.speed = velocity],
               SetTopVelocity(Now, p, velocity))

CallGetTopVelocity ==
    \E p \in Pumps :
        /\ AtRest
        /\ Ran([NoOp EXCEPT !.name = "get_top_velocity", !.p = p], GetTopVelocity(Now, p))

CallEnsureDefaultTopVelocity ==
    \E p \in Pumps :
        /\ AtRest
        /\ Ran([NoOp EXCEPT !.name = "ensure_default_top_velocity", !.p = p],
               EnsureDefaultTopVelocity(Now, p))

CallSetDefaultTopVelocity ==
    \E p \in Pumps : \E value \in Velocities(p) :
        /\ AtRest
        /\ Ran([NoOp EXCEPT !.name = "set_default_top_velocity", !.p = p,
                            !.speed = value, !.was = ctl[p].default_top_velocity],
               SetDefaultTopVelocity(Now, p, value))

NextVelocity ==
    \/ Forget
    \/ HardwareLine("p2")
    \/ CallSetTopVelocity
    \/ CallGetTopVelocity
    \/ CallEnsureDefaultTopVelocity
    \/ CallSetDefaultTopVelocity

SpecVelocity == InitVelocity /\ [][NextVelocity]_vars

\* C18: writing top velocity 0 or max_velocity + 1 sends nothing, raises
\* nothing and leaves the top velocity of the pump as it was; writing 1 or
\* max_velocity (6000 in microstep mode 0, 48000 in mode 2) sends the
\* set-velocity command with that value, which an answering pump takes.
C18_TopVelocitySoftReject ==
    op.name = "set_top_velocity" =>
        /\ op.speed \in {0, MaxVelocity(op.p) + 1} =>
              /\ exc = "none"
              /\ log = <<>>
              /\ dev[op.p].topv = pre[op.p].topv
        /\ op.speed \in {1, MaxVelocity(op.p)} =>
              /\ log # <<>>
              /\ IsSend(1, CMD_TOPVELOCITY) /\ log[1].n = op.speed
              /\ Cardinality(SendsOf(CMD_TOPVELOCITY)) = 1
              /\ exc = "none" => dev[op.p].topv = op.speed

C18_Witness ==
    /\ op.name = "set_top_velocity"
    /\ op.p = "p2" /\ op.speed = 48001
    /\ pre[op.p].topv = 48000
    /\ dev[op.p].topv = 48000
    /\ log = <<>>

\* C19: the default top velocity falls back to 1000 only at construction;
\* after construction a write of a default outside [1, max_velocity] is a
\* no-op that leaves the previous default in effect.
C19_DefaultWriteIsNoOp ==
    ( /\ op.name = "set_default_top_velocity"
      /\ op.speed \notin 1..MaxVelocity(op.p) )
    => ctl[op.p].default_top_velocity = op.was

----------------------------------------------------------------------------
(* A line that dies in the middle of an operation                          *)

\* The line dies at once, or after one, two or three more packets, or is
\* mended.
LineEnvs == {"ok", "mute", "last1", "last2", "last3"}

HardwareFades(p) ==
    \E e \in LineEnvs :
        /\ AtRest
        /\ e # dev[p].env
        /\ dev[p].env = "ok" \/ e = "ok"
        /\ dev' = [dev EXCEPT ![p].env = e]
        /\ pre' = dev'
        /\ UNCHANGED <<ctl, op, log, exc, ret, val>>

NextLine ==
    \/ Forget
    \/ HardwareTick("p1")
    \/ HardwareFades("p1")
    \/ CallIsIdle("p1")
    \/ CallSetValvePosition("p1")
    \/ CallPump("p1")
    \/ CallDeliver("p1")
    \/ CallTransfer("p1")

SpecLine == Init /\ [][NextLine]_vars

\* The packets that got no reply.
Unanswered == {i \in DOMAIN log : log[i].k = "recv" /\ log[i].s = ""}

\* The packets the operation sent, and the packets a dying line still
\* answers.
PacketsSent == {i \in DOMAIN log : log[i].k = "send"}
PacketsLeft == [mute |-> 0, last1 |-> 1, last2 |-> 2, last3 |-> 3]

----------------------------------------------------------------------------
(* The codec: packets and replies, character by character                  *)

\* A str or bytes value is the sequence of its characters here.  ETX is
\* the character '\x03'.
DTStart == "/"
ETX == "<ETX>"
CR == "\r"

\* The characters str.rstrip() removes.
Whitespace == {" ", "\t", "\n", CR}

\* The command codes of pump_protocol.py that the controller model above
\* does not use.
CMD_EXECUTE == "R"
CMD_INITIALIZE_VALVE_RIGHT == "Z"
CMD_INITIALIZE_VALVE_LEFT == "Y"
CMD_EEPROM_CONFIG == "U"
CMD_REPORT_START_VELOCITY == "?1"
CMD_REPORT_CUTOFF_VELOCITY == "?3"
CMD_REPORT_EEPROM == "?27"

\* The characters of the str values that have more than one.
Chars(s) ==
    CASE s = "?1" -> <<"?", "1">>
      [] s = "?2" -> <<"?", "2">>
      [] s = "?3" -> <<"?", "3">>
      [] s = "?6" -> <<"?", "6">>
      [] s = "?19" -> <<"?", "1", "9">>
      [] s = "?27" -> <<"?", "2", "7">>
      [] s = "0,0" -> <<"0", ",", "0">>
      [] s = "" -> <<>>
      [] OTHER -> <<s>>

\* str(n) for an int n.
DigitChar(d) == <<"0", "1", "2", "3", "4", "5", "6", "7", "8", "9">>[d + 1]

RECURSIVE StrOfNat(_)
StrOfNat(n) ==
    IF n < 10 THEN <<DigitChar(n)>>
    ELSE Append(StrOfNat(n \div 10), DigitChar(n % 10))

StrOfInt(n) == IF n < 0 THEN <<"-">> \o StrOfNat(0 - n) ELSE StrOfNat(n)

\* DTCommand(command, operand=None): given is FALSE for the operand None.
DTCommand(command, operand, given) ==
    [command |-> command, operand |-> operand, given |-> given]

\* A faulty variant: the operand is left out of the bytes.
MutCommandToStringNoOperand(c) == c.command

\* DTCommand.to_string: the command, then the operand when there is one.
CommandToString(c) == IF c.given THEN c.command \o c.operand ELSE c.command

\* The loop of DTInstructionPacket.to_array over the commands.
RECURSIVE CommandsToString(_)
CommandsToString(cs) ==
    IF cs = <<>> THEN <<>>
    ELSE CommandToString(Head(cs)) \o CommandsToString(Tail(cs))

\* DTInstructionPacket(address, dtcommands).
DTInstructionPacket(address, dtcommands) ==
    [address |-> address, dtcommands |-> dtcommands]

\* DTInstructionPacket.to_string: the start, the address, the commands.
PacketToString(packet) ==
    <<DTStart>> \o packet.address \o CommandsToString(packet.dtcommands)

\* A faulty variant: the execute command is never appended.
MutForgePacketNeverExecutes(address, dtcommands, execute) ==
    DTInstructionPacket(address, dtcommands)

\* C3000Protocol(address).forge_packet(dtcommands, execute).
ForgePacket(address, dtcommands, execute) ==
    DTInstructionPacket(address,
        IF execute THEN Append(dtcommands, DTCommand(Chars(CMD_EXECUTE), <<>>, FALSE))
        ELSE dtcommands)

\* The forge_* methods of C3000Protocol: the command code, what becomes
\* of the argument ("value": str(operand_value); "string": operand_string
\* as it is, None for no operand; "position": '{}{}'.format(code,
\* valve_position) as the command; "none": no operand), and execute.
ForgeTable ==
    [forge_initialize_valve_right_packet |->
        [command |-> CMD_INITIALIZE_VALVE_RIGHT, operand |-> "value", execute |-> TRUE],
     forge_initialize_valve_left_packet |->
        [command |-> CMD_INITIALIZE_VALVE_LEFT, operand |-> "value", execute |-> TRUE],
     forge_initialize_no_valve_packet |->
        [command |-> CMD_INITIALIZE_NO_VALVE, operand |-> "value", execute |-> TRUE],
     forge_initialize_valve_only_packet |->
        [command |-> CMD_INITIALIZE_VALVE_ONLY, operand |-> "string", execute |-> TRUE],
     forge_microstep_mode_packet |->
        [command |-> CMD_MICROSTEPMODE, operand |-> "value", execute |-> TRUE],
     forge_move_to_packet |->
        [command |-> CMD_MOVE_TO, operand |-> "value", execute |-> TRUE],
     forge_pump_packet |->
        [command |-> CMD_PUMP, operand |-> "value", execute |-> TRUE],
     forge_deliver_packet |->
        [command |-> CMD_DELIVER, operand |-> "value", execute |-> TRUE],
     forge_top_velocity_packet |->
        [command |-> CMD_TOPVELOCITY, operand |-> "value", execute |-> TRUE],
     forge_eeprom_config_packet |->
        [command |-> CMD_EEPROM_CONFIG, operand |-> "value", execute |-> FALSE],
     forge_valve_input_packet |->
        [command |-> CMD_VALVE_INPUT, operand |-> "none", execute |-> TRUE],
     forge_valve_output_packet |->
        [command |-> CMD_VALVE_OUTPUT, operand |-> "none", execute |-> TRUE],
     forge_valve_bypass_packet |->
        [command |-> CMD_VALVE_BYPASS, operand |-> "none", execute |-> TRUE],
     forge_valve_extra_packet |->
        [command |-> CMD_VALVE_EXTRA, operand |-> "none", execute |-> TRUE],
     forge_valve_6way_packet |->
        [command |-> CMD_VALVE_INPUT, operand |-> "position", execute |-> TRUE],
     forge_report_status_packet |->
        [command |-> CMD_REPORT_STATUS, operand |-> "none", execute |-> TRUE],
     forge_report_plunger_position_packet |->
        [command |-> CMD_REPORT_PLUNGER_POSITION, operand |-> "none", execute |-> TRUE],
     forge_report_start_velocity_packet |->
        [command |-> CMD_REPORT_START_VELOCITY, operand |-> "none", execute |-> TRUE],
     forge_report_peak_velocity_packet |->
        [command |-> CMD_REPORT_PEAK_VELOCITY, operand |-> "none", execute |-> TRUE],
     forge_report_cutoff_velocity_packet |->
        [command |-> CMD_REPORT_CUTOFF_VELOCITY, operand |-> "none", execute |-> TRUE],
     forge_report_valve_position_packet |->
        [command |-> CMD_REPORT_VALVE_POSITION, operand |-> "none", execute |-> TRUE],
     forge_report_initialized_packet |->
        [command |-> CMD_REPORT_INTIALIZED, operand |-> "none", execute |-> TRUE],
     forge_report_eeprom_packet |->
        [command |-> CMD_REPORT_EEPROM, operand |-> "none", execute |-> TRUE]]

\* The DTCommand a forge method builds from its arguments: n is the
\* operand_value, t the operand_string or the valve_position.
ForgedCommand(method, n, t) ==
    CASE ForgeTable[method].operand = "value" ->
            DTCommand(Chars(ForgeTable[method].command), StrOfInt(n), TRUE)
      [] ForgeTable[method].operand = "string" ->
            IF t = "None" THEN DTCommand(Chars(ForgeTable[method].command), <<>>, FALSE)
            ELSE DTCommand(Chars(ForgeTable[method].command), Chars(t), TRUE)
      [] ForgeTable[method].operand = "position" ->
            DTCommand(Chars(ForgeTable[method].command) \o Chars(t), <<>>, FALSE)
      [] OTHER -> DTCommand(Chars(ForgeTable[method].command), <<>>, FALSE)

\* C3000Protocol(address).forge_..._packet(...).
Forge(address, method, n, t) ==
    ForgePacket(address, <<ForgedCommand(method, n, t)>>, ForgeTable[method].execute)

\* What send_message(packet, prepare=True) writes: prepare_message(packet),
\* which is packet.to_string(), then self.command_terminator.
SentBytes(packet) == PacketToString(packet) \o <<CR>>

\* str.rstrip(chars) and str.lstrip(chars).
RECURSIVE RStrip(_, _)
RStrip(s, cs) ==
    IF s # <<>> /\ s[Len(s)] \in cs THEN RStrip(SubSeq(s, 1, Len(s) - 1), cs) ELSE s

RECURSIVE LStrip(_, _)
LStrip(s, cs) == IF s # <<>> /\ Head(s) \in cs THEN LStrip(Tail(s), cs) ELSE s

\* A faulty variant: the start is left on the reply.
MutParseReplyKeepsStart(reply) == RStrip(RStrip(reply, Whitespace), {ETX})

\* parse_reply: reply.rstrip().rstrip('\x03').lstrip(DTStart).
ParseReply(reply) == LStrip(RStrip(RStrip(reply, Whitespace), {ETX}), {DTStart})

\* The end of write_and_read_from_pump, from the reply receive_reply hands
\* over parsed: an empty one raises PumpCommunicationError; response[1] of
\* a one character response raises IndexError; else (status, data).
ResponseSplit(m, response) ==
    IF response = <<>> THEN Raise(m, "PumpCommunicationError")
    ELSE IF Len(response) < 2 THEN Raise(m, "IndexError")
    ELSE [m EXCEPT !.ret = <<response[2], SubSeq(response, 3, Len(response))>>]

ReadReply(m, reply) == ResponseSplit(m, ParseReply(reply))

\* DTStatus(response).decode() for a response that decodes to a str:
\* info[0] or info[1] raises IndexError on a short info; else
\* (address, status, data).
InfoSplit(m, info) ==
    IF Len(info) < 2 THEN Raise(m, "IndexError")
    ELSE [m EXCEPT !.ret = <<info[1], info[2], SubSeq(info, 3, Len(info))>>]

DecodePacket(m, dtresponse) ==
    InfoSplit(m, LStrip(RStrip(RStrip(dtresponse, Whitespace), {ETX}), {DTStart}))

----------------------------------------------------------------------------
(* The codec at work: packets written and replies read                     *)

\* The sequences over S of length at most n.
SeqsUpTo(S, n) == UNION {[1..k -> S] : k \in 0..n}

\* The addresses, the arguments of the forge methods, and the commands of
\* hand made packets.
CodecAddresses == {<<"1">>, <<"=">>}
Operands == {0, 1, 12}
OperandStrings == {"None", "0,0"}
Positions == {"1", "2"}
HandCommands ==
    {DTCommand(<<"I">>, <<>>, FALSE), DTCommand(<<"I">>, <<"1">>, TRUE),
     DTCommand(<<"I", "1">>, <<>>, FALSE), DTCommand(<<"P">>, <<"1">>, TRUE),
     DTCommand(<<"R">>, <<>>, FALSE)}

\* The replies the line hands over: with or without the start, an address,
\* a status and a data payload (or cut short before them), with or without
\* the ETX and the terminator.
ReplyAddresses == {"1", "="}
ReplyStatuses == {STATUS_IDLE_ERROR_FREE, STATUS_BUSY_ERROR_FREE, "g"}
Payloads == SeqsUpTo({"5", "i", ","}, MaxPayload)
ReplyBodies ==
    {<<>>} \cup {<<a>> : a \in ReplyAddresses}
           \cup {<<a, st>> \o data : a \in ReplyAddresses, st \in ReplyStatuses,
                                      data \in Payloads}
Replies ==
    {start \o body \o etx \o term :
        start \in {<<>>, <<DTStart>>}, body \in ReplyBodies,
        etx \in {<<>>, <<ETX>>}, term \in {<<>>, <<CR>>}}

InitCodec ==
    /\ ctl = [p \in Pumps |-> NewController(p, Config[p], C3000SwitchToAddress[DialOf[p]])]
    /\ dev = [p \in Pumps |->
                Hardware(C3000SwitchToAddress[DialOf[p]], ctl[p].number_of_steps,
                         "i", 0, Config[p].top_velocity, 0)]
    /\ pre = dev
    /\ op = NoOp
    /\ log = <<>>
    /\ exc = "none"
    /\ ret = "None"
    /\ val = -1

\* A packet was written, the first or the second since the line was last
\* at rest: the log keeps the arguments of forge_packet and the bytes on
\* the line.
Written(method, address, dtcommands, execute) ==
    /\ log' = log \o
              <<[k |-> "bytes", method |-> method, address |-> address,
                 dtcommands |-> dtcommands, execute |-> execute,
                 bytes |-> SentBytes(ForgePacket(address, dtcommands, execute))]>>
    /\ op' = [NoOp EXCEPT !.name = "send_message"]
    /\ exc' = "none" /\ ret' = "None" /\ val' = -1
    /\ UNCHANGED <<ctl, dev, pre>>

\* send_message(C3000Protocol(address).forge_..._packet(...)).
CallSendForged ==
    \E address \in CodecAddresses, method \in DOMAIN ForgeTable,
       n \in Operands, t \in OperandStrings \cup Positions :
        /\ Len(log) < 2
        /\ ForgeTable[method].operand = "string" => t \in OperandStrings
        /\ ForgeTable[method].operand = "position" => t \in Positions
        /\ Written(method, address, <<ForgedCommand(method, n, t)>>,
                   ForgeTable[method].execute)

\* send_message(C3000Protocol(address).forge_packet(dtcommands, execute)).
CallSendPacket ==
    \E address \in CodecAddresses, dtcommands \in SeqsUpTo(HandCommands, MaxCommands),
       execute \in BOOLEAN :
        /\ Len(log) < 2
        /\ Written("forge_packet", address, dtcommands, execute)

\* A reply was read and split.
Read(name, reply, m) ==
    /\ op' = [NoOp EXCEPT !.name = name, !.reply = reply]
    /\ exc' = m.exc /\ ret' = m.ret /\ val' = m.val
    /\ log' = <<>>
    /\ UNCHANGED <<ctl, dev, pre>>

\* The reading half of write_and_read_from_pump.
CallReadReply ==
    \E reply \in Replies :
        /\ AtRest
        /\ Read("read_reply", reply, ReadReply(Now, reply))

\* C3000Protocol.decode_packet.
CallDecodePacket ==
    \E reply \in Replies :
        /\ AtRest
        /\ Read("decode_packet", reply, DecodePacket(Now, reply))

NextCodec ==
    \/ Forget
    \/ CallSendForged
    \/ CallSendPacket
    \/ CallReadReply
    \/ CallDecodePacket

SpecCodec == InitCodec /\ [][NextCodec]_vars

\* C21: a reply with fewer than 2 characters left after the stripping is
\* reported as PumpCommunicationError, as an empty reply is.
C21_ShortReplyIsCommunicationError ==
    ( /\ op.name \in {"read_reply", "decode_packet"}
      /\ Len(ParseReply(op.reply)) < 2 )
    => exc = "PumpCommunicationError"

\* The bytes a command stands for, and the packets written by the forge
\* methods.
BytesOf(c) == c.command \o (IF c.given THEN c.operand ELSE <<>>)
Forged == {i \in DOMAIN log : log[i].method # "forge_packet"}

\* C22: the bytes written for a forged packet are the start '/', the
\* address, the command's code and operand, one 'R' unless the packet is the
\* EEPROM configuration packet (the only one forged without execute), and
\* the terminator; forge_packet appends the 'R' exactly when execute is set.
C22_EncodingLayout ==
    /\ \A i \in Forged :
          /\ Len(log[i].dtcommands) = 1
          /\ log[i].bytes =
                <<"/">> \o log[i].address \o BytesOf(log[i].dtcommands[1])
                        \o (IF log[i].method = "forge_eeprom_config_packet"
                            THEN <<>> ELSE <<"R">>)
                        \o <<CR>>
    /\ \A i \in DOMAIN log \ Forged :
          /\ log[i].bytes[1] = "/" /\ log[i].bytes[Len(log[i].bytes)] = CR
          /\ Len(log[i].bytes) =
                Len(log[i].address) + 2 + (IF log[i].execute THEN 1 ELSE 0)
                + (IF log[i].dtcommands = <<>> THEN 0
                   ELSE Len(BytesOf(log[i].dtcommands[1]))
                        + (IF Len(log[i].dtcommands) < 2 THEN 0
                           ELSE Len(BytesOf(log[i].dtcommands[2]))
                                + (IF Len(log[i].dtcommands) < 3 THEN 0
                                   ELSE Len(BytesOf(log[i].dtcommands[3])))))
          /\ log[i].execute => log[i].bytes[Len(log[i].bytes) - 1] = "R"

C22_Witness ==
    /\ Len(log) = 2
    /\ log[1].method = "forge_eeprom_config_packet"
    /\ log[1].bytes = <<"/", "1", "U", "1", CR>>
    /\ log[2].method = "forge_pump_packet"
    /\ log[2].bytes = <<"/", "=", "P", "1", "2", "R", CR>>

\* C23 as stated: two packets that differ in the address, in the commands
\* or in execute never give the same bytes.
C23_Original ==
    (Len(log) = 2 /\ log[1].bytes = log[2].bytes) =>
        /\ log[1].address = log[2].address
        /\ log[1].dtcommands = log[2].dtcommands
        /\ log[1].execute = log[2].execute

\* C23: two packets of the forge methods that differ in the address, in the
\* command or its operand, or in execute never give the same bytes.
C23_ForgedEncodingInjective ==
    (Len(log) = 2 /\ Forged = {1, 2} /\ log[1].bytes = log[2].bytes) =>
        /\ log[1].address = log[2].address
        /\ log[1].dtcommands = log[2].dtcommands
        /\ log[1].execute = log[2].execute

C23_Witness ==
    /\ Len(log) = 2
    /\ log[1].method = "forge_valve_6way_packet"
    /\ log[2].method = "forge_valve_input_packet"
    /\ log[1].address = log[2].address
    /\ log[1].dtcommands # log[2].dtcommands
    /\ log[1].bytes = <<"/", "1", "I", "1", "R", CR>>
    /\ log[2].bytes = <<"/", "1", "I", "R", CR>>

\* C24: a reply '/' address status data [ETX] terminator is split by
\* position after the stripping: write_and_read_from_pump returns (status,
\* data) and decode (address, status, data), the data as it came, empty or
\* not.
C24_ReplySplit ==
    op.name \in {"read_reply", "decode_packet"} =>
        \A a \in ReplyAddresses, st \in ReplyStatuses, data \in Payloads,
           etx \in {<<>>, <<ETX>>} :
            op.reply = <<"/", a, st>> \o data \o etx \o <<CR>> =>
                /\ exc = "none"
                /\ ret = IF op.name = "read_reply" THEN <<st, data>>
                         ELSE <<a, st, data>>

C24_Witness ==
    /\ op.name = "read_reply"
    /\ op.reply = <<"/", "1", "@", "5", "i", ETX, CR>>
    /\ exc = "none"
    /\ ret = <<"@", <<"5", "i">>>>

----------------------------------------------------------------------------
(* Claims on the fault letters                                             *)

\* C25: a status that carries a fault letter is reported as the fault of
\* that letter: is_idle raises PumpHWError with the letter as its
\* error_code.
C25_FaultLetterReported ==
    ( /\ op.name = "is_idle"
      /\ pre[op.p].env # "mute"
      /\ pre[op.p].fault # "" )
    => /\ exc = "PumpHWError"
       /\ Len(log) = 2 /\ log[2].s = pre[op.p].fault

----------------------------------------------------------------------------
(* Valve positions: every position, and tokens that are none               *)

\* What the valve may report: the ten positions, a character that is none,
\* and nothing.
RawValves == {"i", "o", "b", "e", "1", "2", "3", "4", "5", "6", "x", ""}
ValvePositions == {VALVE_INPUT, VALVE_OUTPUT, VALVE_BYPASS, VALVE_EXTRA} \cup VALVE_6WAY_LIST

InitValve ==
    /\ ctl = [p \in Pumps |-> NewController(p, Config[p], C3000SwitchToAddress[DialOf[p]])]
    /\ \E dur \in {0, MaxBusy}, valve \in RawValves :
          dev = [p \in Pumps |->
                   Hardware(C3000SwitchToAddress[DialOf[p]], ctl[p].number_of_steps,
                            valve, 0, Config[p].top_velocity, dur)]
    /\ pre = dev
    /\ op = NoOp
    /\ log = <<>>
    /\ exc = "none"
    /\ ret = "None"
    /\ val = -1

CallGetValvePosition(p) ==
    /\ AtRest
    /\ Ran([NoOp EXCEPT !.name = "get_valve_position", !.p = p], GetValvePosition(Now, p))

CallSetValveTo(p) ==
    \E valve \in ValvePositions \cup {"X"}, secure \in BOOLEAN :
        /\ AtRest
        /\ Ran([NoOp EXCEPT !.name = "set_valve_position", !.p = p, !.valve = valve,
                            !.secure = secure, !.max_repeat = MAX_REPEAT_OPERATION],
               SetValvePosition(Now, p, valve, MAX_REPEAT_OPERATION, secure))

CallPumpThrough(p) ==
    \E valve \in {VALVE_INPUT, "X"}, speed \in Speeds, secure \in BOOLEAN :
        /\ AtRest
        /\ Ran([NoOp EXCEPT !.name = "pump", !.p = p, !.volume = Ml(3), !.valve = valve,
                            !.speed = speed, !.wait = TRUE, !.secure = secure],
               Pump(Now, p, Ml(3), valve, speed, TRUE, secure))

CallDeliverThrough(p) ==
    \E valve \in {VALVE_OUTPUT, "X"}, speed \in Speeds, secure \in BOOLEAN :
        /\ AtRest
        /\ Ran([NoOp EXCEPT !.name = "deliver", !.p = p, !.volume = Ml(3),
                            !.to_valve = valve, !.speed_out = speed, !.wait = TRUE,
                            !.secure = secure],
               Deliver(Now, p, Ml(3), valve, speed, TRUE, secure))

NextValve ==
    \/ Forget
    \/ HardwareTick("p1")
    \/ CallGetValvePosition("p1")
    \/ CallSetValveTo("p1")
    \/ CallPumpThrough("p1")
    \/ CallDeliverThrough("p1")

SpecValve == InitValve /\ [][NextValve]_vars

\* The position each raw character stands for.
PositionOfRaw ==
    [i |-> VALVE_INPUT, o |-> VALVE_OUTPUT, b |-> VALVE_BYPASS, e |-> VALVE_EXTRA]

\* C26: raw 'i' 'o' 'b' 'e' decode to input, output, bypass and extra, a
\* raw digit '1'..'6' to the six way position of that digit, and any other
\* raw value raises ValueError; set_valve_position(T) on a valve that is at
\* T returns True with the position query alone, and a verified
\* set_valve_position(T) that returns True leaves the valve at T.
C26_ValvePositionsBothWays ==
    /\ (op.name = "get_valve_position" /\ Len(log) = 2 /\ log[2].s # "") =>
          /\ log[2].t \in DOMAIN PositionOfRaw =>
                (exc = "none" /\ ret = PositionOfRaw[log[2].t])
          /\ log[2].t \in {"1", "2", "3", "4", "5", "6"} =>
                (exc = "none" /\ ret = log[2].t)
          /\ log[2].t \notin DOMAIN PositionOfRaw \cup {"1", "2", "3", "4", "5", "6"} =>
                exc = "ValueError"
    /\ \A r \in RawValves \ {"x", ""} :
          ( /\ op.name = "set_valve_position"
            /\ pre[op.p].valve = r
            /\ op.valve = (IF r \in DOMAIN PositionOfRaw THEN PositionOfRaw[r] ELSE r) )
          => (exc = "none" /\ ret = "True" /\ Len(log) = 2 /\ ValveMoveSends = {})
    /\ ( /\ op.name = "set_valve_position" /\ op.secure
         /\ exc = "none" /\ ret = "True" )
       => \E r \in RawValves \ {"x", ""} :
             /\ dev[op.p].valve = r
             /\ op.valve = (IF r \in DOMAIN PositionOfRaw THEN PositionOfRaw[r] ELSE r)

C26_Witness ==
    /\ op.name = "set_valve_position" /\ op.valve = "3"
    /\ pre[op.p].valve = "3"
    /\ ret = "True"
    /\ Len(log) = 2
    /\ log[2].t = "3"

\* The packets that change the state of the pump.
StateChangingSends ==
    {i \in DOMAIN log :
        /\ log[i].k = "send"
        /\ log[i].c \in ValveCmds \cup {CMD_TOPVELOCITY, CMD_PUMP, CMD_DELIVER, CMD_MOVE_TO}}

\* C28: pump, deliver and set_valve_position given a valve token that is no
\* position raise ValueError and have sent no packet that changes the state
\* of the pump.
C28_UnknownValveRejectedWhole ==
    ( /\ \/ op.name \in {"pump", "set_valve_position"} /\ op.valve = "X"
         \/ op.name = "deliver" /\ op.to_valve = "X"
      /\ pre[op.p].valve \notin {"x", ""} )
    => /\ exc = "ValueError"
       /\ StateChangingSends = {}

----------------------------------------------------------------------------
(* The life of one controller: built, initialised, terminated              *)

\* terminate: self._protocol.forge_terminate_packet() is looked up first,
\* and C3000Protocol has no such method.
Terminate(m, p) ==
    IF "forge_terminate_packet" \notin DOMAIN ForgeTable THEN Raise(m, "AttributeError")
    ELSE Dropped(WriteAndRead(m, p, "T", -1, ""))

\* The total volumes a configuration may give: none, half a millilitre, one
\* and five millilitres, more millilitres than the pump has steps, and a
\* negative one; the microstep modes: the two that are handled and one that
\* is not.
TotalVolumes == {0, Ml(1) \div 2, Ml(1), Ml(5), Ml(3001), 0 - Ml(1)}
MicrostepModes == {MICRO_STEP_MODE_0, 1, MICRO_STEP_MODE_2}

InitLife ==
    /\ ctl = [p \in Pumps |-> NoController(p, Config[p])]
    /\ \E dur \in {0, MaxBusy}, valve \in {"i", "o"} :
          dev = [p \in Pumps |->
                   Hardware(C3000SwitchToAddress[DialOf[p]], N_STEP_MICRO_STEP_MODE_0,
                            valve, 0, Config[p].top_velocity, dur)]
    /\ pre = dev
    /\ op = NoOp
    /\ log = <<>>
    /\ exc = "none"
    /\ ret = "None"
    /\ val = -1

\* __init__ from the discovered address on (lines 164 to 181).
CallInit(p) ==
    \E total_volume \in TotalVolumes, micro_step_mode \in MicrostepModes :
        /\ AtRest
        /\ Ran([NoOp EXCEPT !.name = "__init__", !.p = p, !.volume = total_volume,
                            !.was = micro_step_mode],
               Configured(Return(Now, C3000SwitchToAddress[DialOf[p]]), p,
                          [Config[p] EXCEPT !.total_volume = total_volume,
                                            !.micro_step_mode = micro_step_mode]))

CallInitializeBuilt(p) ==
    \E valve \in {"None", VALVE_OUTPUT}, secure \in BOOLEAN :
        /\ AtRest
        /\ ctl[p].built
        /\ Ran([NoOp EXCEPT !.name = "initialize", !.p = p, !.valve = valve,
                            !.secure = secure],
               Initialize(Now, p, valve, secure))

CallTerminate(p) ==
    /\ AtRest
    /\ ctl[p].built
    /\ Ran([NoOp EXCEPT !.name = "terminate", !.p = p], Terminate(Now, p))

NextLife ==
    \/ Forget
    \/ CallInit("p1")
    \/ CallInitializeBuilt("p1")
    \/ CallTerminate("p1")

SpecLife == InitLife /\ [][NextLife]_vars

\* The valve position initialize moves to, and the packets of its steps.
InitializeTarget ==
    IF op.valve = "None" THEN ctl[op.p].initialize_valve_position ELSE op.valve
HomeValveSends == SendsOf(CMD_INITIALIZE_VALVE_ONLY)
HomePlungerSends == SendsOf(CMD_INITIALIZE_NO_VALVE)
ValveQuerySends == SendsOf(CMD_REPORT_VALVE_POSITION)

\* The controller saw the pump idle between the packets at i and j.
SeenIdleBetween(i, j) ==
    \E k \in (i + 1)..(j - 1) :
        IsRecv(k, CMD_REPORT_STATUS) /\ log[k].s = STATUS_IDLE_ERROR_FREE

\* C27 as stated: the no-valve init is never sent before the valve
\* positioning has completed, secure or not.
C27_Original ==
    (op.name = "initialize" /\ exc = "none" /\ pre[op.p].dur > 0) =>
        \A i \in ValveMoveSends : \A j \in HomePlungerSends : SeenIdleBetween(i, j)

\* C27: initialize sends the valve-only init first and waits for the pump,
\* then positions the valve at the target (initialize_valve_position when
\* none is given), then sends the no-valve init, with operand 1 when the
\* total volume is below 1 ml and 0 otherwise, and waits.  With secure the
\* no-valve init follows a position query that reported the target; without
\* it follows the valve move at once.
C27_InitializeThreeSteps ==
    (op.name = "initialize" /\ exc = "none") =>
        /\ HomeValveSends = {1} /\ log[1].t = "0,0"
        /\ Cardinality(HomePlungerSends) = 1
        /\ ValveQuerySends # {}
        /\ \A j \in HomePlungerSends :
              /\ log[j].n = (IF ctl[op.p].total_volume < Ml(1) THEN 1 ELSE 0)
              /\ \A i \in ValveQuerySends \cup ValveMoveSends :
                    /\ i < j
                    /\ SeenIdleBetween(1, i)
              /\ \A i \in ValveMoveSends : log[i].c = ValvePacketCmd(InitializeTarget)
              /\ \A i \in (j + 2)..Len(log) : log[i].c = CMD_REPORT_STATUS
              /\ IsRecv(Len(log), CMD_REPORT_STATUS)
              /\ log[Len(log)].s = STATUS_IDLE_ERROR_FREE
              /\ op.secure =>
                    /\ IsRecv(j - 1, CMD_REPORT_VALVE_POSITION)
                    /\ DecodedValve(log[j - 1].t) = InitializeTarget
                    /\ \A i \in ValveMoveSends : SeenIdleBetween(i, j)
              /\ (~op.secure /\ ValveMoveSends # {}) => ValveMoveSends = {j - 2}

C27_Witness ==
    /\ op.name = "initialize" /\ exc = "none" /\ op.secure
    /\ ctl[op.p].total_volume = Ml(1) \div 2
    /\ pre[op.p].valve = "o" /\ pre[op.p].dur > 0
    /\ ValveMoveSends # {}
    /\ \E j \in HomePlungerSends : log[j].n = 1
    /\ dev[op.p].valve = "i"

\* C29: terminate sends the abort command and ends without an error,
\* whether the pump is idle or busy.
C29_TerminateSendsAbort ==
    op.name = "terminate" =>
        /\ exc = "none"
        /\ log # <<>>
        /\ log[1].k = "send"

\* C30: a controller that was built has steps_per_ml >= 1, and __init__
\* fails for a total volume that gives less.
C30_StepsPerMlAtLeastOne ==
    /\ \A p \in Pumps : ctl[p].built => ctl[p].steps_per_ml >= 1
    /\ ( /\ op.name = "__init__"
         /\ op.was \in {MICRO_STEP_MODE_0, MICRO_STEP_MODE_2}
         /\ \/ op.volume <= 0
            \/ op.volume > VolDen * (IF op.was = MICRO_STEP_MODE_0
                                     THEN N_STEP_MICRO_STEP_MODE_0
                                     ELSE N_STEP_MICRO_STEP_MODE_2) )
       => exc # "none"

----------------------------------------------------------------------------
(* Volumes and steps: volume_to_step and step_to_volume                    *)

\* The total volumes of the syringes that are supported: half a millilitre
\* to 25 ml, one of them (7 ml) not a divisor of the step counts.
SupportedVolumes == {Ml(1) \div 2, Ml(1), Ml(5), Ml(7), Ml(12), Ml(25)}

\* The volumes asked of volume_to_step for a syringe: sixteenths of the
\* total volume, the smallest volumes, and the ones next to the total.
Grain == 16
VolumesUpTo(total_volume) ==
    {(k * total_volume) \div Grain : k \in 0..Grain}
        \cup {1, 10, 30, total_volume - 1}

InitSteps ==
    /\ \E total_volume \in SupportedVolumes,
          micro_step_mode \in {MICRO_STEP_MODE_0, MICRO_STEP_MODE_2} :
          ctl = [p \in Pumps |->
                   NewController(p, [Config[p] EXCEPT !.total_volume = total_volume,
                                                      !.micro_step_mode = micro_step_mode],
                                 C3000SwitchToAddress[DialOf[p]])]
    /\ dev = [p \in Pumps |->
                Hardware(C3000SwitchToAddress[DialOf[p]], ctl[p].number_of_steps,
                         "i", 0, Config[p].top_velocity, 0)]
    /\ pre = dev
    /\ op = NoOp
    /\ log = <<>>
    /\ exc = "none"
    /\ ret = "None"
    /\ val = -1

CallVolumeToStep(p) ==
    \E volume \in VolumesUpTo(ctl[p].total_volume) :
        /\ AtRest
        /\ Ran([NoOp EXCEPT !.name = "volume_to_step", !.p = p, !.volume = volume],
               ReturnVal(Now, VolumeToStep(ctl[p], volume)))

CallStepToVolume(p) ==
    \E step \in {0, 1, ctl[p].number_of_steps \div 2, ctl[p].number_of_steps} :
        /\ AtRest
        /\ Ran([NoOp EXCEPT !.name = "step_to_volume", !.p = p, !.was = step],
               VolumeOfSteps(ReturnVal(Now, step), p))

NextSteps ==
    \/ Forget
    \/ CallVolumeToStep("p1")
    \/ CallStepToVolume("p1")

SpecSteps == InitSteps /\ [][NextSteps]_vars

\* C31: for a supported syringe and a volume from 0 to its total volume,
\* volume_to_step gives the step nearest to volume * steps_per_ml, and that
\* step is within 0..number_of_steps; with a 1 ml syringe in microstep mode
\* 2, volume_to_step(0.5) is 12000 and step_to_volume(12000) is 0.5 ml.
C31_StepsWithinStroke ==
    /\ (op.name = "volume_to_step" /\ op.volume \in 0..ctl[op.p].total_volume) =>
          /\ exc = "none"
          /\ val \in 0..ctl[op.p].number_of_steps
          /\ 2 * (val * VolDen - op.volume * ctl[op.p].steps_per_ml) \in
                (0 - VolDen)..VolDen
    /\ ( /\ ctl["p1"].total_volume = Ml(1)
         /\ ctl["p1"].micro_step_mode = MICRO_STEP_MODE_2 ) =>
          /\ (op.name = "volume_to_step" /\ op.volume = Ml(1) \div 2) => val = 12000
          /\ (op.name = "step_to_volume" /\ op.was = 12000) =>
                (exc = "none" /\ val = Ml(1) \div 2)

\* The 7 ml syringe asked for its whole volume: 428 steps per ml, 2996 steps.
C31_Witness ==
    /\ op.name = "volume_to_step" /\ exc = "none"
    /\ ctl[op.p].total_volume = Ml(7)
    /\ ctl[op.p].micro_step_mode = MICRO_STEP_MODE_0
    /\ op.volume = Ml(7)
    /\ val = 2996

----------------------------------------------------------------------------
(* Moves of the plunger: pump, deliver and go_to_volume, waiting or not    *)

CallGoToVolume(p) ==
    \E volume \in Volumes \cup {Ml(6)}, speed \in Speeds \cup {0}, wait \in BOOLEAN :
        /\ AtRest
        /\ Ran([NoOp EXCEPT !.name = "go_to_volume", !.p = p, !.volume = volume,
                            !.speed = speed, !.wait = wait],
               GoToVolume(Now, p, volume, speed, wait))

NextMoves ==
    \/ Forget
    \/ HardwareTick("p1")
    \/ CallPump("p1")
    \/ CallDeliver("p1")
    \/ CallGoToVolume("p1")

SpecMoves == Init /\ [][NextMoves]_vars

\* The last call was pump, deliver or go_to_volume; the speed it was given.
MoveCalled == op.name \in {"pump", "deliver", "go_to_volume"}
SpeedGiven == IF op.name = "deliver" THEN op.speed_out ELSE op.speed
PlungerCmds == {CMD_PUMP, CMD_DELIVER, CMD_MOVE_TO}
MoveSends == {i \in DOMAIN log : log[i].k = "send" /\ log[i].c \in PlungerCmds}
VelocitySends == SendsOf(CMD_TOPVELOCITY)

----------------------------------------------------------------------------
(* Claims on the bring-up of one pump                                      *)

\* C33: smart_initialize of one pump homes the pump (valve-only init, valve
\* move, no-valve init) only when the pump reports not initialised, in both
\* cases sends the microstep mode and the default top velocity, and returns
\* without an error.
C33_SmartInitializeAppliesParameters ==
    (op.name = "smart_initialize" /\ pre[op.p].env = "ok" /\ pre[op.p].fault = "") =>
        /\ exc = "none"
        /\ pre[op.p].init => HomingSendsTo(op.p) = {}
        /\ ~pre[op.p].init => SendsOf(CMD_INITIALIZE_NO_VALVE) # {}
        /\ SendsOf(CMD_MICROSTEPMODE) # {}
        /\ \E i \in SendsOf(CMD_TOPVELOCITY) :
              log[i].n = ctl[op.p].default_top_velocity

\* The indices of the log where the packet c is written to pump p, and
\* where the method what is called on pump p.
SendIndices(p, c) == {i \in DOMAIN log : IsSend(i, c) /\ log[i].p = p}
CallIndices(p, what) == {i \in DOMAIN log : IsCall(i, what) /\ log[i].p = p}
ValveMovesTo(p) == {i \in ValveMoveSends : log[i].p = p}

\* C40: in the bring-up of the orchestrator every pump that reports not
\* initialised as the call starts gets the valve-only init, then
\* set_valve_position for its configured initial position (with a valve move
\* when the valve is elsewhere), then the no-valve init, in that order and
\* once each, and is initialised with the valve at that position when the
\* call ends; no stage is skipped, the status being asked at each stage.
C40_ColdPumpsHomedInOrder ==
    (op.name = "multi_smart_initialize" /\ AllPumpsReady) =>
        \A p \in Pumps :
            ~pre[p].init =>
                /\ Cardinality(SendIndices(p, CMD_INITIALIZE_VALVE_ONLY)) = 1
                /\ Cardinality(CallIndices(p, "set_valve_position")) = 1
                /\ Cardinality(SendIndices(p, CMD_INITIALIZE_NO_VALVE)) = 1
                /\ \A i \in SendIndices(p, CMD_INITIALIZE_VALVE_ONLY) :
                   \A j \in CallIndices(p, "set_valve_position") :
                   \A k \in SendIndices(p, CMD_INITIALIZE_NO_VALVE) :
                      /\ i < j /\ j < k
                      /\ \A h \in ValveMovesTo(p) :
                            /\ j < h /\ h < k
                            /\ log[h].c = ValvePacketCmd(ctl[p].initialize_valve_position)
                      /\ \A st \in {i, j, k} :
                            \E h \in SendIndices(p, CMD_REPORT_INTIALIZED) :
                               /\ h < st
                               /\ \A g \in (h + 2)..(st - 1) : log[g].k = "call"
                /\ DecodedValve(pre[p].valve) # ctl[p].initialize_valve_position
                      => ValveMovesTo(p) # {}
                /\ dev[p].init
                /\ DecodedValve(dev[p].valve) = ctl[p].initialize_valve_position

\* Both pumps cold, both valves away from the initial position.
C40_Witness ==
    /\ op.name = "multi_smart_initialize" /\ AllPumpsReady
    /\ \A p \in Pumps :
          /\ ~pre[p].init /\ dev[p].init
          /\ ValveMovesTo(p) # {}
          /\ SendIndices(p, CMD_INITIALIZE_NO_VALVE) # {}

----------------------------------------------------------------------------
(* Claims on the cycles of a transfer                                      *)

\* C34: a transfer of a positive volume ends: every cycle pumps a chunk
\* above zero, so the volume still to transfer falls from cycle to cycle and
\* the recursion stops, also when the plunger is at the full stroke when
\* transfer is called.
C34_TransferTerminates ==
    (op.name = "transfer" /\ op.volume > 0) =>
        /\ exc # "RecursionError"
        /\ \A i \in DOMAIN log : IsCall(i, "pump") => log[i].n > 0

\* The position the move packet at index i of the log asks the pump to
\* reach, from the position the pump was last asked to reach.
AskedTarget(i) ==
    CASE log[i].c = CMD_PUMP -> pre[op.p].ptarget + log[i].n
      [] log[i].c = CMD_DELIVER -> pre[op.p].ptarget - log[i].n
      [] OTHER -> log[i].n

\* C37: every move packet of pump, deliver and go_to_volume asks the pump
\* for a plunger position within 0..number_of_steps, also when the call is
\* made while an earlier move, started without waiting, is still running.
C37_TargetWithinStroke ==
    MoveCalled =>
        \A i \in MoveSends : AskedTarget(i) \in 0..ctl[op.p].number_of_steps

\* C36: in a transfer that returns, every cycle with a chunk above zero has
\* its chunk accepted by pump and by deliver: the pump packet and the
\* deliver packet for the steps of the chunk are both sent, so the volume
\* moved is the volume asked for.
C36_NoCycleDropped ==
    (op.name = "transfer" /\ exc = "none") =>
        \A i \in Cycles :
            ChunkAt(i) > 0 =>
                /\ \E h \in SendsWithin(NextCall(i), CMD_PUMP) :
                      log[h].n = VolumeToStep(ctl[op.p], ChunkAt(i))
                /\ \E h \in SendsWithin(NextCall(NextCall(i)), CMD_DELIVER) :
                      log[h].n = VolumeToStep(ctl[op.p], ChunkAt(i))

----------------------------------------------------------------------------
(* Faults that come and go between two status queries                      *)

\* A fault shows on the pump, or clears, at any time.
HardwareFault(p) ==
    \E f \in Faults :
        /\ f # dev[p].fault
        /\ dev' = [dev EXCEPT ![p].fault = f]
        /\ UNCHANGED <<ctl, pre, op, log, exc, ret, val>>

\* The caller of is_idle takes its result, an exception included, and calls
\* is_idle again on the same controller: the log keeps the first exchange,
\* then the result the caller took, then the second exchange.
CallIsIdleAgain(p) ==
    /\ op.name = "is_idle" /\ op.p = p
    /\ Ran([NoOp EXCEPT !.name = "is_idle_again", !.p = p],
           IsIdle([Now EXCEPT !.log = Append(log, Ev("call", p, "is_idle", -1, exc, ret))],
                  p))

NextFault ==
    \/ Forget
    \/ HardwareTick("p1")
    \/ HardwareFault("p1")
    \/ CallGoToVolume("p1")
    \/ CallIsIdle("p1")
    \/ CallIsIdleAgain("p1")

SpecFault == Init /\ [][NextFault]_vars

\* The status of the last reply in the log.
LastStatus == log[Len(log)].s

\* C35: the controller keeps no fault: what is_idle does is decided by the
\* status of its own reply alone.  After an is_idle that raised on a fault
\* letter, an is_idle answered idle error free returns True and one
\* answered busy error free returns False; it raises again only when its own
\* reply carries a fault letter; and no is_idle changes the controller.
C35_FaultsNotLatched ==
    /\ \A p \in Pumps :
          ctl[p] = NewController(p, Config[p], C3000SwitchToAddress[DialOf[p]])
    /\ (op.name \in {"is_idle", "is_idle_again"} /\ log[Len(log)].k = "recv") =>
          /\ LastStatus = STATUS_IDLE_ERROR_FREE => (exc = "none" /\ ret = "True")
          /\ LastStatus = STATUS_BUSY_ERROR_FREE => (exc = "none" /\ ret = "False")
          /\ LastStatus \notin {STATUS_IDLE_ERROR_FREE, STATUS_BUSY_ERROR_FREE}
                => exc # "none"

\* is_idle raised on the fault letter g; the fault cleared; the next is_idle
\* returned True.
C35_Witness ==
    /\ op.name = "is_idle_again" /\ Len(log) = 5
    /\ log[2].k = "recv" /\ log[2].s = "g"
    /\ log[3].k = "call" /\ log[3].t # "none"
    /\ log[5].k = "recv" /\ log[5].s = STATUS_IDLE_ERROR_FREE
    /\ exc = "none" /\ ret = "True"

----------------------------------------------------------------------------
(* Group transfer: the secure setting and the names given                  *)

\* The lists of names given to a group transfer: none, pumps, a pump and a
\* name that is no pump, only a name that is no pump.
GroupNameLists == NameLists \cup {<<"zz">>}

CallGroupTransfer ==
    \E pump_names \in GroupNameLists, volume \in MultiVolumes \cup {Ml(6)},
       speed \in Speeds, secure \in BOOLEAN :
        /\ AtRest
        /\ Ran([NoOp EXCEPT !.name = "multi_transfer", !.names = pump_names,
                            !.volume = volume, !.valve = VALVE_INPUT,
                            !.to_valve = VALVE_OUTPUT, !.speed = speed,
                            !.speed_out = speed, !.secure = secure],
               MultiTransfer(Now, pump_names, volume, VALVE_INPUT, VALVE_OUTPUT,
                             speed, speed, secure, 0))

NextGroup ==
    \/ Forget
    \/ HardwareLine("p2")
    \/ CallGroupTransfer

SpecGroup == InitMulti /\ [][NextGroup]_vars

\* C38: a group transfer called with secure=False completes, and in every
\* cycle, the first and the later ones, each valve move is issued without
\* verification: the call that sent it returns at once, so what follows the
\* move's reply in the log is the next call of the fan-out.
C38_SecureEveryCycle ==
    (GroupTransferCalled /\ ~op.secure) =>
        /\ exc = "none"
        /\ \A i \in ValveMoveSends : i + 2 <= Len(log) => log[i + 2].k = "call"

\* The chunk of the first cycle: the loop of transfer over get_pumps, run on
\* the pumps as the call found them.
FirstChunk ==
    MultiSmallest(Machine(ctl, pre), GetPumps(Machine(ctl, pre), op.names),
                  op.volume, InfVolume)

\* C39: for every list of names given to a group transfer, the chunk of a
\* cycle is finite and not above the volume still to transfer, and a name
\* that is no pump, skipped when the chunk is computed, is skipped by the
\* fan-out of pump and deliver too; stated for the first cycle.
C39_ChunkFiniteForEveryList ==
    (op.name = "multi_transfer" /\ op.volume > 0 /\ FirstChunk.exc = "none") =>
        /\ FirstChunk.val < InfVolume
        /\ FirstChunk.val <= op.volume
        /\ exc # "KeyError"

============================================================================
